---------------------------- MODULE Spec2Model ----------------------------
(***************************************************************************)
(* The grading application.  Grade service: the create_grade workflow     *)
(* (validate -> student_exists -> get_student_name -> insert -> notify),   *)
(* the grades table with its AUTOINCREMENT key, the student-service        *)
(* client and the external notifier.  Student service: create_student and  *)
(* delete_student over the shared sqlite connection, one thread for each   *)
(* request.  Also GradeRepository.find_all, delete_grade served by         *)
(* several threads, the WebhookService with its counters, and the webhook  *)
(* receiver with its history.                                              *)
(***************************************************************************)
EXTENDS Integers, Sequences, FiniteSets, TLC

(***************************************************************************)
(* Bounds of the model.                                                    *)
(***************************************************************************)
\* create_grade calls that reach the store are capped: the key counter
\* never goes past MaxId.
MaxId == 3

\* requests that the threaded server handles at the same time
NumThreads == 2

\* the calls of the webhook service in one run
MaxCalls == 3

\* the notifications the webhook receiver gets in one run
MaxArrivals == 53

(***************************************************************************)
(* Python values.  A value that the code inspects by type (student_id,    *)
(* credits) is a record: t is the type, n the number (an int, or a float   *)
(* counted in halves), s the characters of a str.                          *)
(***************************************************************************)
PyNone == [t |-> "none", n |-> 0, s |-> <<>>]

PyInt(i) == [t |-> "int", n |-> i, s |-> <<>>]

PyStr(cs) == [t |-> "str", n |-> 0, s |-> cs]

\* the float h/2
PyFloat(h) == [t |-> "float", n |-> h, s |-> <<>>]

\* float('inf'), which json.loads yields for 1e999 or Infinity
PyInf == [t |-> "inf", n |-> 0, s |-> <<>>]

\* float('nan'), which json.loads yields for NaN
PyNaN == [t |-> "nan", n |-> 0, s |-> <<>>]

\* an Optional[str] such as student_name: the str s, or None
Text(s) == [none |-> FALSE, text |-> s]

NoneText == [none |-> TRUE, text |-> ""]

\* bool(v), as `not v` uses it
Truthy(v) ==
    CASE v.t = "none"  -> FALSE
      [] v.t = "int"   -> v.n # 0
      [] v.t = "float" -> v.n # 0
      [] v.t = "str"   -> v.s # <<>>
      [] OTHER         -> TRUE

\* str.strip() on a sequence of characters
RECURSIVE LStrip(_)
LStrip(cs) ==
    IF cs # <<>> /\ Head(cs) = " " THEN LStrip(Tail(cs)) ELSE cs

RECURSIVE RStrip(_)
RStrip(cs) ==
    IF cs # <<>> /\ cs[Len(cs)] = " " THEN RStrip(SubSeq(cs, 1, Len(cs) - 1)) ELSE cs

Strip(cs) == RStrip(LStrip(cs))

Digits == <<"0", "1", "2", "3", "4", "5", "6", "7", "8", "9">>

IsDigit(c) == \E i \in DOMAIN Digits : Digits[i] = c

DigitVal(c) == (CHOOSE i \in DOMAIN Digits : Digits[i] = c) - 1

RECURSIVE DigitsVal(_)
DigitsVal(cs) ==
    IF cs = <<>> THEN 0
    ELSE DigitsVal(SubSeq(cs, 1, Len(cs) - 1)) * 10 + DigitVal(cs[Len(cs)])

\* int(v): the exception it raises ("" when none) and the value it returns
IntOf(v) ==
    CASE v.t = "int"   -> [exc |-> "", val |-> v.n]
      [] v.t = "float" ->
            \* truncation towards zero
            [exc |-> "", val |-> IF v.n >= 0 THEN v.n \div 2 ELSE -((-v.n) \div 2)]
      [] v.t = "inf"   -> [exc |-> "OverflowError", val |-> 0]
      [] v.t = "str"   ->
            LET body == Strip(v.s)
                signed == body # <<>> /\ Head(body) \in {"+", "-"}
                digs == IF signed THEN Tail(body) ELSE body
            IN  IF digs # <<>> /\ \A i \in DOMAIN digs : IsDigit(digs[i])
                THEN [exc |-> "",
                      val |-> IF signed /\ Head(body) = "-"
                              THEN -DigitsVal(digs) ELSE DigitsVal(digs)]
                ELSE [exc |-> "ValueError", val |-> 0]
      [] OTHER         -> [exc |-> "TypeError", val |-> 0]

\* isinstance(v, int)
IsInt(v) == v.t = "int"

\* isinstance(v, (int, float))
IsNumber(v) == v.t \in {"int", "float", "inf", "nan"}

\* float(v) for a value that is not a number yet: the exception it raises
\* ("" when none) and the float it returns.  The strings the model passes
\* are digits with an optional sign; everything else is no float literal.
FloatOf(v) ==
    CASE v.t = "str"   ->
            LET body == Strip(v.s)
                signed == body # <<>> /\ Head(body) \in {"+", "-"}
                digs == IF signed THEN Tail(body) ELSE body
            IN  IF digs # <<>> /\ \A i \in DOMAIN digs : IsDigit(digs[i])
                THEN [exc |-> "",
                      val |-> PyFloat(IF signed /\ Head(body) = "-"
                                      THEN -2 * DigitsVal(digs)
                                      ELSE 2 * DigitsVal(digs))]
                ELSE [exc |-> "ValueError", val |-> v]
      [] v.t = "int"   -> [exc |-> "", val |-> PyFloat(2 * v.n)]
      [] v.t \in {"float", "inf", "nan"} -> [exc |-> "", val |-> v]
      [] OTHER         -> [exc |-> "TypeError", val |-> v]

\* c in cs
Contains(cs, c) == \E i \in DOMAIN cs : cs[i] = c

\* sep.join(strs)
RECURSIVE Join(_, _)
Join(strs, sep) ==
    IF strs = <<>> THEN ""
    ELSE IF Len(strs) = 1 THEN strs[1]
    ELSE strs[1] \o sep \o Join(Tail(strs), sep)

(***************************************************************************)
(* models/grade.py                                                         *)
(***************************************************************************)
VALID_GRADES == <<"A", "A-", "B+", "B", "B-", "C+", "C", "C-", "D", "F">>

\* grade in VALID_GRADES
InValidGrades(g) == \E i \in DOMAIN VALID_GRADES : VALID_GRADES[i] = g

\* Grade(id=None, student_id, course, grade, semester, credits)
Grade(sid, course, grade, semester, credits) ==
    [student_id |-> sid, course |-> course, grade |-> grade,
     semester |-> semester, credits |-> credits]

(***************************************************************************)
(* GradeService.validate_grade                                             *)
(***************************************************************************)
ErrStudentId == "Student ID is required"
ErrCourse == "Course name must be at least 2 characters"
ErrGradeRequired == "Grade is required"
ErrInvalidGrade == "Invalid grade. Must be one of: " \o Join(VALID_GRADES, ", ")
ErrSemester == "Semester is required"
ErrCreditsNumber == "Credits must be a number"
ErrCreditsRange == "Credits must be between 1 and 6"

\* the error each field contributes, as a sequence of zero or one strings
StudentIdErrors(g) == IF ~Truthy(g.student_id) THEN <<ErrStudentId>> ELSE <<>>

CourseErrors(g) ==
    IF g.course = <<>> \/ Len(Strip(g.course)) < 2 THEN <<ErrCourse>> ELSE <<>>

GradeErrors(g) ==
    IF g.grade = "" THEN <<ErrGradeRequired>>
    ELSE IF ~InValidGrades(g.grade) THEN <<ErrInvalidGrade>>
    ELSE <<>>

SemesterErrors(g) == IF g.semester = "" THEN <<ErrSemester>> ELSE <<>>

\* the credits block: grade.credits after the coercion, the errors it adds,
\* and the exception that escapes it ("" when none)
CreditsCheck(g) ==
    IF g.credits.t = "none"
    THEN [credits |-> g.credits, errors |-> <<>>, exc |-> ""]
    ELSE LET conv == IntOf(g.credits)
             escaped == ~IsInt(g.credits) /\ conv.exc \notin {"", "ValueError", "TypeError"}
             coerced == IF IsInt(g.credits) \/ conv.exc # ""
                        THEN g.credits ELSE PyInt(conv.val)
             typeErr == IF ~IsInt(g.credits) /\ conv.exc \in {"ValueError", "TypeError"}
                        THEN <<ErrCreditsNumber>> ELSE <<>>
             rangeErr == IF IsInt(coerced) /\ (coerced.n < 1 \/ coerced.n > 6)
                         THEN <<ErrCreditsRange>> ELSE <<>>
         IN  [credits |-> coerced,
              errors |-> typeErr \o rangeErr,
              exc |-> IF escaped THEN conv.exc ELSE ""]

\* validate_grade(grade): the ValidationResult, the grade object as the call
\* leaves it (credits coerced in place) and the exception it raises, if any
validate_grade(g) ==
    LET cc == CreditsCheck(g)
        errors == StudentIdErrors(g) \o CourseErrors(g) \o GradeErrors(g)
                    \o SemesterErrors(g) \o cc.errors
    IN  [exc |-> cc.exc,
         is_valid |-> Len(errors) = 0,
         errors |-> errors,
         grade |-> [g EXCEPT !.credits = cc.credits]]


(***************************************************************************)
(* Exceptions of the HTTP library, as the except clauses tell them apart.  *)
(***************************************************************************)
\* isinstance(e, requests.exceptions.Timeout)
IsTimeout(exc) == exc \in {"Timeout", "ConnectTimeout", "ReadTimeout"}

\* isinstance(e, requests.exceptions.ConnectionError)
IsConnectionError(exc) ==
    exc \in {"ConnectionError", "ConnectTimeout", "SSLError", "ProxyError"}

\* isinstance(e, requests.RequestException)
IsRequestException(exc) ==
    \/ IsTimeout(exc)
    \/ IsConnectionError(exc)
    \/ exc \in {"TooManyRedirects", "JSONDecodeError", "RequestException"}

\* isinstance(e, Exception)
IsException(exc) == exc # "" /\ exc \notin {"KeyboardInterrupt", "SystemExit"}

(***************************************************************************)
(* StudentClient (services/student_client.py).  What GET                   *)
(* /api/students/<id> does is a record: exc names the exception the        *)
(* request raises ("" when a response arrives), status and the other       *)
(* fields describe the response.  body tells whether the body is a JSON    *)
(* object, another JSON value ("array") or no JSON ("invalid", and then    *)
(* json_exc is what response.json() raises: JSONDecodeError, a             *)
(* RequestException, with requests >= 2.27 and a plain ValueError before); *)
(* success, hasdata, hasname say which keys of the object are there and    *)
(* truthy, name is the name and null_name tells that it is null.           *)
(***************************************************************************)
StudentReply(status, success, hasdata, hasname, name) ==
    [exc |-> "", status |-> status, success |-> success, hasdata |-> hasdata,
     hasname |-> hasname, name |-> name, body |-> "object", json_exc |-> "",
     null_name |-> FALSE]

\* a student whose name is null
StudentReplyNullName(status) ==
    [StudentReply(status, TRUE, TRUE, TRUE, "") EXCEPT !.null_name = TRUE]

\* a body that is no JSON object
StudentReplyBody(status, body, json_exc) ==
    [StudentReply(status, FALSE, FALSE, FALSE, "") EXCEPT !.body = body,
                                                         !.json_exc = json_exc]

StudentFailure(exc) ==
    [StudentReply(0, FALSE, FALSE, FALSE, "") EXCEPT !.exc = exc]

\* the student service answered, or could not be reached
Unreachable(reply) == IsConnectionError(reply.exc) \/ IsTimeout(reply.exc)

\* what get_student gives: the exception that leaves it ("" when none),
\* whether it returns the data dict (found) or None, and the name in it
StudentData(exc, found, hasname, name, null_name) ==
    [exc |-> exc, found |-> found, hasname |-> hasname, name |-> name,
     null_name |-> null_name]

\* get_student(student_id)
get_student(reply) ==
    IF reply.exc # ""
    THEN IF IsRequestException(reply.exc)
         THEN StudentData("", FALSE, FALSE, "", FALSE)
         ELSE StudentData(reply.exc, FALSE, FALSE, "", FALSE)
    ELSE IF reply.status = 200
    THEN IF reply.body = "invalid"
         THEN \* response.json() raises inside the try block
              IF IsRequestException(reply.json_exc)
              THEN StudentData("", FALSE, FALSE, "", FALSE)
              ELSE StudentData(reply.json_exc, FALSE, FALSE, "", FALSE)
         ELSE IF reply.body # "object"
         THEN \* data.get: the value has no such method
              StudentData("AttributeError", FALSE, FALSE, "", FALSE)
         ELSE IF reply.success /\ reply.hasdata
         THEN StudentData("", TRUE, reply.hasname, reply.name, reply.null_name)
         ELSE StudentData("", FALSE, FALSE, "", FALSE)
    ELSE StudentData("", FALSE, FALSE, "", FALSE)

\* get_student_name(student_id): the exception that leaves it ("" when
\* none) and the value it returns
get_student_name(reply) ==
    LET student == get_student(reply)
    IN  IF student.exc # "" THEN [exc |-> student.exc, name |-> NoneText]
        ELSE IF student.found
        THEN \* student.get('name', 'Unknown')
             IF ~student.hasname THEN [exc |-> "", name |-> Text("Unknown")]
             ELSE IF student.null_name THEN [exc |-> "", name |-> NoneText]
             ELSE [exc |-> "", name |-> Text(student.name)]
        ELSE [exc |-> "", name |-> Text("Unknown")]

\* student_exists(student_id) without the except clause: the exception escapes
student_exists_fail_closed(reply) ==
    IF reply.exc # "" THEN FALSE ELSE reply.status = 200

\* student_exists(student_id)
student_exists(reply) ==
    IF IsRequestException(reply.exc) THEN TRUE ELSE reply.status = 200

(***************************************************************************)
(* GradeRepository (repositories/grade_repository.py): the grades table    *)
(* and the AUTOINCREMENT counter that sqlite keeps for it.                 *)
(***************************************************************************)
MaxOf(S) == IF S = {} THEN 0 ELSE CHOOSE m \in S : \A x \in S : x <= m

Ids(table) == {r.id : r \in table}

\* the key INTEGER PRIMARY KEY AUTOINCREMENT gives the next row
NextRowid(table, counter) == MaxOf(Ids(table) \cup {counter}) + 1

\* create(grade): the INSERT and its commit.  exc is the exception the
\* statement raises ("" when the row is in), lastrowid the key returned
create(table, counter, g) ==
    IF g.credits.t = "none" \/ g.student_id.t = "none"
    THEN [exc |-> "IntegrityError",
          text |-> IF g.student_id.t = "none"
                   THEN "NOT NULL constraint failed: grades.student_id"
                   ELSE "NOT NULL constraint failed: grades.credits",
          table |-> table, counter |-> counter, lastrowid |-> 0]
    ELSE LET id == NextRowid(table, counter)
             row == [id |-> id, student_id |-> g.student_id.n, course |-> g.course,
                     grade |-> g.grade, semester |-> g.semester,
                     credits |-> g.credits.n]
         IN  [exc |-> "", text |-> "", table |-> table \cup {row},
              counter |-> id, lastrowid |-> id]

\* find_by_id(grade_id)
find_by_id(table, id) == {r \in table : r.id = id}

\* the characters the model's texts are made of, in the order of their
\* codes: the BINARY collation compares texts byte by byte
Alphabet == <<" ", "%", "A", "D", "_", "a", "b", "d">>

CharCode(c) == CHOOSE i \in DOMAIN Alphabet : Alphabet[i] = c

\* the semesters of the model in the order memcmp gives them
SemesterOrder == <<"Fall 2023", "Fall 2024", "Spring 2024">>

SemesterRank(s) == CHOOSE i \in DOMAIN SemesterOrder : SemesterOrder[i] = s

\* memcmp on two texts: a sorts before b
RECURSIVE TextBefore(_, _)
TextBefore(a, b) ==
    IF b = <<>> THEN FALSE
    ELSE IF a = <<>> THEN TRUE
    ELSE IF Head(a) # Head(b) THEN CharCode(Head(a)) < CharCode(Head(b))
    ELSE TextBefore(Tail(a), Tail(b))

\* ORDER BY semester DESC, course: row a must come before row b
RowBefore(a, b) ==
    \/ SemesterRank(a.semester) > SemesterRank(b.semester)
    \/ a.semester = b.semester /\ TextBefore(a.course, b.course)

\* sqlite's LIKE folds the case of ASCII letters
Lower(c) ==
    CASE c = "A" -> "a"
      [] c = "D" -> "d"
      [] OTHER   -> c

\* text LIKE pattern: % is any run of characters, _ any one character
RECURSIVE Like(_, _)
Like(pattern, text) ==
    IF pattern = <<>> THEN text = <<>>
    ELSE IF Head(pattern) = "%"
    THEN \E k \in 0..Len(text) :
            Like(Tail(pattern), SubSeq(text, k + 1, Len(text)))
    ELSE IF Head(pattern) = "_"
    THEN text # <<>> /\ Like(Tail(pattern), Tail(text))
    ELSE /\ text # <<>>
         /\ Lower(Head(pattern)) = Lower(Head(text))
         /\ Like(Tail(pattern), Tail(text))

\* an Optional[str] filter whose text is a sequence of characters
Chars(cs) == [none |-> FALSE, text |-> cs]

NoChars == [none |-> TRUE, text |-> <<>>]

\* Grade.from_row(row)
from_row(row) ==
    [id |-> row.id, student_id |-> row.student_id, course |-> row.course,
     grade |-> row.grade, semester |-> row.semester, credits |-> row.credits,
     student_name |-> NoneText]

\* the WHERE clause find_all builds: a filter is added when its value is truthy
Selected(table, student_id, course, semester) ==
    {r \in table :
        /\ Truthy(student_id) => r.student_id = student_id.n
        /\ (~course.none /\ course.text # <<>>) =>
                Like(<<"%">> \o course.text \o <<"%">>, r.course)
        /\ (~semester.none /\ semester.text # "") => r.semester = semester.text}

\* the orders ORDER BY semester DESC, course allows for the rows: rows with
\* equal keys come in an order that sqlite does not promise
Ordered(rows) ==
    {l \in [1..Cardinality(rows) -> rows] :
        /\ \A i, j \in DOMAIN l : i # j => l[i] # l[j]
        /\ \A i, j \in DOMAIN l : i < j => ~RowBefore(l[j], l[i])}

\* find_all(student_id, course, semester): the lists it can return
find_all(table, student_id, course, semester) ==
    {[i \in DOMAIN l |-> from_row(l[i])] :
        l \in Ordered(Selected(table, student_id, course, semester))}

\* a DELETE whose WHERE clause is lost: every row goes
delete_no_where(table, id) ==
    [table |-> {}, deleted |-> Cardinality(table) > 0]

\* delete(grade_id): the table after the DELETE and rowcount > 0
delete(table, id) ==
    [table |-> {r \in table : r.id # id},
     deleted |-> Cardinality({r \in table : r.id = id}) > 0]

(***************************************************************************)
(* ExternalNotifier (services/external_notifier.py).  What the external    *)
(* endpoint does is a record: exc/text the exception requests.get raises   *)
(* ("" when a response arrives), else the status, the content-type header  *)
(* ("" when absent) and whether the body parses as JSON.                   *)
(***************************************************************************)
EndpointReply(status, ctype, json_ok) ==
    [exc |-> "", text |-> "", status |-> status, ctype |-> ctype, json_ok |-> json_ok]

EndpointFailure(exc, text) ==
    [exc |-> exc, text |-> text, status |-> 0, ctype |-> "", json_ok |-> FALSE]

\* response.headers.get('content-type', '').startswith('application/json')
IsJsonContentType(ctype) ==
    ctype \in {"application/json", "application/json; charset=utf-8"}

ExternalNotifyResult(raised, success, blocked, message) ==
    [raised |-> raised, success |-> success, blocked |-> blocked, message |-> message]

\* the try block: the exception it ends in ("" when it returns) and, when
\* it returns, the result
NotifyTry(beh) ==
    IF beh.exc # ""
    THEN [exc |-> beh.exc, text |-> beh.text,
          result |-> ExternalNotifyResult("", FALSE, FALSE, "")]
    ELSE IF beh.status = 200
         THEN IF IsJsonContentType(beh.ctype) /\ ~beh.json_ok
              THEN \* response.json() raises
                   [exc |-> "JSONDecodeError", text |-> "Expecting value",
                    result |-> ExternalNotifyResult("", FALSE, FALSE, "")]
              ELSE [exc |-> "", text |-> "",
                    result |-> ExternalNotifyResult("", TRUE, FALSE,
                                  "External notification sent successfully")]
         ELSE [exc |-> "", text |-> "",
               result |-> ExternalNotifyResult("", FALSE, FALSE,
                             "External service returned status " \o ToString(beh.status))]

\* the except clauses without `except requests.exceptions.Timeout`
NotifyExceptNoTimeout(exc, text) ==
    IF IsConnectionError(exc)
    THEN ExternalNotifyResult("", FALSE, TRUE,
            "Connection failed - likely blocked by NetworkPolicy: " \o text)
    ELSE IF IsException(exc)
    THEN ExternalNotifyResult("", FALSE, FALSE, "Unexpected error: " \o text)
    ELSE ExternalNotifyResult(exc, FALSE, FALSE, "")

\* the except clauses with the catch-all reporting blocked=True as well
NotifyExceptAllBlocked(exc, text) ==
    IF IsTimeout(exc)
    THEN ExternalNotifyResult("", FALSE, TRUE,
            "Connection timed out - likely blocked by NetworkPolicy")
    ELSE IF IsConnectionError(exc)
    THEN ExternalNotifyResult("", FALSE, TRUE,
            "Connection failed - likely blocked by NetworkPolicy: " \o text)
    ELSE ExternalNotifyResult("", FALSE, TRUE, "Unexpected error: " \o text)

\* the except clauses without `except Exception`: anything else escapes
NotifyExceptNoCatchAll(exc, text) ==
    IF IsTimeout(exc)
    THEN ExternalNotifyResult("", FALSE, TRUE,
            "Connection timed out - likely blocked by NetworkPolicy")
    ELSE IF IsConnectionError(exc)
    THEN ExternalNotifyResult("", FALSE, TRUE,
            "Connection failed - likely blocked by NetworkPolicy: " \o text)
    ELSE ExternalNotifyResult(exc, FALSE, FALSE, "")

\* the except clauses, in their order
NotifyExcept(exc, text) ==
    IF IsTimeout(exc)
    THEN ExternalNotifyResult("", FALSE, TRUE,
            "Connection timed out - likely blocked by NetworkPolicy")
    ELSE IF IsConnectionError(exc)
    THEN ExternalNotifyResult("", FALSE, TRUE,
            "Connection failed - likely blocked by NetworkPolicy: " \o text)
    ELSE IF IsException(exc)
    THEN ExternalNotifyResult("", FALSE, FALSE, "Unexpected error: " \o text)
    ELSE ExternalNotifyResult(exc, FALSE, FALSE, "")

\* notify_grade_created(student_name, course, grade)
notify_grade_created(beh) ==
    LET try == NotifyTry(beh)
    IN  IF try.exc = "" THEN try.result ELSE NotifyExcept(try.exc, try.text)

(***************************************************************************)
(* Student service: models/student.py and StudentService.validate_student. *)
(* name and email are sequences of characters, age and gpa Python values.  *)
(***************************************************************************)
\* Student(id=None, name, email, age, major, gpa)
Student(name, email, age, major, gpa) ==
    [name |-> name, email |-> email, age |-> age, major |-> major, gpa |-> gpa]

ErrName == "Name must be at least 2 characters"
ErrEmail == "Invalid email address"
ErrAgeNumber == "Age must be a number"
ErrAgeRange == "Age must be between 16 and 100"
ErrGpaNumber == "GPA must be a number"
ErrGpaRange == "GPA must be between 0 and 4.0"

NameErrors(st) ==
    IF st.name = <<>> \/ Len(Strip(st.name)) < 2 THEN <<ErrName>> ELSE <<>>

EmailErrors(st) ==
    IF st.email = <<>> \/ ~Contains(st.email, "@") THEN <<ErrEmail>> ELSE <<>>

\* the age block: student.age after the coercion, the errors it adds and
\* the exception that escapes it ("" when none)
AgeCheck(st) ==
    IF st.age.t = "none"
    THEN [age |-> st.age, errors |-> <<>>, exc |-> ""]
    ELSE LET conv == IntOf(st.age)
             escaped == ~IsInt(st.age) /\ conv.exc \notin {"", "ValueError", "TypeError"}
             coerced == IF IsInt(st.age) \/ conv.exc # ""
                        THEN st.age ELSE PyInt(conv.val)
             typeErr == IF ~IsInt(st.age) /\ conv.exc \in {"ValueError", "TypeError"}
                        THEN <<ErrAgeNumber>> ELSE <<>>
             rangeErr == IF IsInt(coerced) /\ (coerced.n < 16 \/ coerced.n > 100)
                         THEN <<ErrAgeRange>> ELSE <<>>
         IN  [age |-> coerced, errors |-> typeErr \o rangeErr,
              exc |-> IF escaped THEN conv.exc ELSE ""]

\* gpa < 0 or gpa > 4.0, for a number (a comparison with nan is False)
GpaOutOfRange(v) ==
    CASE v.t = "int"   -> v.n < 0 \/ v.n > 4
      [] v.t = "float" -> v.n < 0 \/ v.n > 8
      [] v.t = "inf"   -> TRUE
      [] OTHER         -> FALSE

\* the gpa block
GpaCheck(st) ==
    IF st.gpa.t = "none"
    THEN [gpa |-> st.gpa, errors |-> <<>>]
    ELSE LET conv == FloatOf(st.gpa)
             coerced == IF IsNumber(st.gpa) \/ conv.exc # ""
                        THEN st.gpa ELSE conv.val
             typeErr == IF ~IsNumber(st.gpa) /\ conv.exc \in {"ValueError", "TypeError"}
                        THEN <<ErrGpaNumber>> ELSE <<>>
             rangeErr == IF IsNumber(coerced) /\ GpaOutOfRange(coerced)
                         THEN <<ErrGpaRange>> ELSE <<>>
         IN  [gpa |-> coerced, errors |-> typeErr \o rangeErr]

\* validate_student(student): the ValidationResult, the student object as
\* the call leaves it (age and gpa coerced in place) and the exception it
\* raises, if any
validate_student(st) ==
    LET ac == AgeCheck(st)
        gc == GpaCheck(st)
        errors == NameErrors(st) \o EmailErrors(st) \o ac.errors
                    \o (IF ac.exc = "" THEN gc.errors ELSE <<>>)
    IN  [exc |-> ac.exc,
         is_valid |-> Len(errors) = 0,
         errors |-> errors,
         student |-> [st EXCEPT !.age = ac.age,
                                !.gpa = IF ac.exc = "" THEN gc.gpa ELSE st.gpa]]

(***************************************************************************)
(* StudentRepository (repositories/student_repository.py): the students    *)
(* table, email TEXT NOT NULL UNIQUE, and its AUTOINCREMENT counter.       *)
(***************************************************************************)
\* a lookup that never finds the row
find_by_email_none(table, email) == {}

\* find_by_email(email)
find_by_email(table, email) == {r \in table : r.email = email}

\* find_by_id(student_id) on the students table
find_student_by_id(table, id) == {r \in table : r.id = id}

\* the INSERT of create(student): exc/text the exception sqlite raises
\* ("" when the row is in), rowid the key of the new row
insert_student(table, counter, st) ==
    IF \E r \in table : r.email = st.email
    THEN [exc |-> "IntegrityError",
          text |-> "UNIQUE constraint failed: students.email",
          table |-> table, counter |-> counter, rowid |-> 0]
    ELSE LET id == NextRowid(table, counter)
             row == [id |-> id, name |-> st.name, email |-> st.email,
                     age |-> st.age, major |-> st.major, gpa |-> st.gpa]
         IN  [exc |-> "", text |-> "", table |-> table \cup {row},
              counter |-> id, rowid |-> id]

\* the DELETE of delete(student_id): the table after it and the rows changed
delete_student_row(table, id) ==
    [table |-> {r \in table : r.id # id},
     changes |-> Cardinality({r \in table : r.id = id})]

(***************************************************************************)
(* WebhookService and WebhookStatus (services/webhook_service.py,          *)
(* models/webhook_status.py).  datetime.now() is the number of the call.   *)
(***************************************************************************)
\* an Optional[str] holding datetime.now().isoformat()
Stamp(now) == [none |-> FALSE, at |-> now]

NoStamp == [none |-> TRUE, at |-> 0]

\* WebhookStatus()
WebhookStatus ==
    [last_attempt |-> NoStamp, last_success |-> NoStamp, last_error |-> NoneText,
     total_attempts |-> 0, total_successes |-> 0, total_failures |-> 0]

record_attempt(status, now) ==
    [status EXCEPT !.total_attempts = @ + 1, !.last_attempt = Stamp(now)]

record_success(status, now) ==
    [status EXCEPT !.total_successes = @ + 1, !.last_success = Stamp(now),
                   !.last_error = NoneText]

record_failure(status, error) ==
    [status EXCEPT !.total_failures = @ + 1, !.last_error = Text(error)]

\* WebhookResult(success, error=None, blocked=False, response=None);
\* response is whether the dict of response.json() is there
WebhookResult(success, error, blocked, response) ==
    [success |-> success, error |-> error, blocked |-> blocked,
     response |-> response]

NoWebhookResult == WebhookResult(FALSE, NoneText, FALSE, FALSE)

\* what a call of the service leaves: the counters, the result returned,
\* the exception that left the call ("" when it returned) and the number
\* of requests.post calls made
WebhookCall(status, res, exc, posted) ==
    [status |-> status, result |-> res, exc |-> exc, posted |-> posted]

\* the except clauses of _send_webhook, in their order (lines 112-128)
SendWebhookExcept(status, exc, text) ==
    IF IsTimeout(exc)
    THEN LET error == "Connection timeout - likely blocked by NetworkPolicy"
         IN  WebhookCall(record_failure(status, error),
                         WebhookResult(FALSE, Text(error), TRUE, FALSE), "", 1)
    ELSE IF IsConnectionError(exc)
    THEN LET error == "Connection refused - likely blocked by NetworkPolicy"
         IN  WebhookCall(record_failure(status, error),
                         WebhookResult(FALSE, Text(error), TRUE, FALSE), "", 1)
    ELSE IF IsRequestException(exc)
    THEN WebhookCall(record_failure(status, text),
                     WebhookResult(FALSE, Text(text), FALSE, FALSE), "", 1)
    ELSE WebhookCall(status, NoWebhookResult, exc, 1)

\* _send_webhook(payload): beh is what the receiver does with the POST,
\* json_exc the exception response.json() raises on a body that is no JSON
\* (JSONDecodeError of requests, or ValueError with requests before 2.27)
send_webhook(status, beh, json_exc, now) ==
    IF beh.exc # ""
    THEN SendWebhookExcept(status, beh.exc, beh.text)
    ELSE IF beh.status = 200
    THEN LET counted == record_success(status, now)
         IN  IF beh.json_ok
             THEN WebhookCall(counted, WebhookResult(TRUE, NoneText, FALSE, TRUE),
                              "", 1)
             ELSE SendWebhookExcept(counted, json_exc, "Expecting value")
    ELSE LET error == "HTTP " \o ToString(beh.status)
         IN  WebhookCall(record_failure(status, error),
                         WebhookResult(FALSE, Text(error), FALSE, FALSE), "", 1)

\* send_grade_notification that counts the attempt before it looks at
\* self.enabled
send_grade_notification_counts_first(enabled, status, beh, json_exc, now) ==
    IF ~enabled
    THEN WebhookCall(record_attempt(status, now),
                     WebhookResult(FALSE, Text("Webhooks disabled"), FALSE, FALSE),
                     "", 0)
    ELSE send_webhook(record_attempt(status, now), beh, json_exc, now)

\* send_grade_notification(grade, student_name)
send_grade_notification(enabled, status, beh, json_exc, now) ==
    IF ~enabled
    THEN WebhookCall(status,
                     WebhookResult(FALSE, Text("Webhooks disabled"), FALSE, FALSE),
                     "", 0)
    ELSE send_webhook(record_attempt(status, now), beh, json_exc, now)

\* test_connection()
test_connection(status, beh, json_exc, now) ==
    send_webhook(status, beh, json_exc, now)

\* _build_payload(grade, student_name)
build_payload(g, student_name, now) ==
    [event |-> "grade_created", timestamp |-> now,
     data |-> [student_id |-> g.student_id, student_name |-> student_name,
               course |-> g.course, grade |-> g.grade, semester |-> g.semester,
               credits |-> g.credits],
     message |-> <<"New grade posted: ", student_name, " received ", g.grade,
                   " in ", g.course>>]

\* test_payload of test_connection
test_payload(now) ==
    [event |-> "test", timestamp |-> now,
     data |-> [student_id |-> PyInt(0), student_name |-> "Test Student",
               course |-> <<"T", "E", "S", "T">>, grade |-> "A",
               semester |-> "Test", credits |-> PyInt(0)],
     message |-> <<"Test webhook - demonstrating egress">>]

(***************************************************************************)
(* The webhook receiver (services/webhook-receiver/app.py).                *)
(***************************************************************************)
\* "Keep only last 50 webhooks"
HistoryLimit == 50

\* webhook_entry: datetime.now() is the number of the notification
WebhookEntry(id, now, data, source_ip) ==
    [id |-> id, timestamp |-> now, type |-> "grade_notification", data |-> data,
     source_ip |-> source_ip]

\* what a handler of the receiver answers
ReceiverResponse(status, message, webhook_id) ==
    [status |-> status, success |-> TRUE, message |-> message,
     webhook_id |-> webhook_id]

\* receive_grade_notification that never drops an entry
receive_grade_notification_keeps_all(history, data, now, source_ip) ==
    LET webhook_entry == WebhookEntry(Len(history) + 1, now, data, source_ip)
    IN  [history |-> Append(history, webhook_entry),
         response |-> ReceiverResponse(200, "Webhook received successfully",
                                       webhook_entry.id)]

\* receive_grade_notification(): the list afterwards and the answer
receive_grade_notification(history, data, now, source_ip) ==
    LET webhook_entry == WebhookEntry(Len(history) + 1, now, data, source_ip)
        appended == Append(history, webhook_entry)
    IN  [history |-> IF Len(appended) > HistoryLimit THEN Tail(appended)
                     ELSE appended,
         response |-> ReceiverResponse(200, "Webhook received successfully",
                                       webhook_entry.id)]

\* clear_history()
clear_history(history) ==
    [history |-> <<>>,
     response |-> ReceiverResponse(200, "Webhook history cleared", 0)]

(***************************************************************************)
(* The inputs and the collaborators' behaviours the model draws from.      *)
(***************************************************************************)
\* grade values: empty, members of the enum, and near misses
GradeValues == {"", "A", "B-", "A+", "a", " A"}

\* the other fields of a request: a valid base, each field varied alone,
\* and everything wrong at once
BaseRest == [student_id |-> PyInt(1), course |-> <<"D", "a">>,
             semester |-> "Fall 2024", credits |-> PyInt(3)]

RestValues ==
    {[BaseRest EXCEPT !.student_id = v] : v \in {PyNone, PyInt(0), PyInt(2)}}
    \cup {[BaseRest EXCEPT !.course = v] : v \in {<<>>, <<" ", "D", " ">>, <<"D">>}}
    \cup {[BaseRest EXCEPT !.semester = ""]}
    \cup {[BaseRest EXCEPT !.credits = v] :
            v \in {PyNone, PyInt(0), PyInt(7), PyStr(<<"3">>), PyStr(<<" ", "9">>),
                   PyStr(<<"x">>), PyFloat(5), PyFloat(1), PyInf}}
    \cup {[student_id |-> PyNone, course |-> <<>>, semester |-> "",
           credits |-> PyStr(<<"x">>)]}
    \cup {BaseRest}

GradeInputs ==
    {Grade(r.student_id, r.course, g, r.semester, r.credits) :
        r \in RestValues, g \in GradeValues}

\* create_student requests: two valid students with one email, a valid one
\* with another email, one with every field wrong, one whose age is inf
StudentInputs ==
    {Student(<<"A", "l">>, <<"a", "@", "x">>, PyInt(20), "Math", PyFloat(7)),
     Student(<<"B", "o">>, <<"a", "@", "x">>, PyStr(<<"3", "0">>), "Math", PyNone),
     Student(<<"C", "y">>, <<"c", "@", "x">>, PyNone, "", PyInt(4)),
     Student(<<" ", "D">>, <<"a", "x">>, PyStr(<<"x">>), "", PyFloat(9)),
     Student(<<"E", "d">>, <<"e", "@", "x">>, PyInf, "", PyNone)}

\* every combination of field values for the validators
GradeFieldValues ==
    [student_id : {PyNone, PyInt(0), PyInt(1)},
     course : {<<>>, <<" ", "D", " ">>, <<"D", "a">>},
     grade : {"", "A", "A+"},
     semester : {"", "Fall 2024"},
     credits : {PyNone, PyInt(0), PyInt(3), PyStr(<<"x">>), PyStr(<<"9">>),
                PyFloat(5), PyInf}]

StudentFieldValues ==
    [name : {<<>>, <<" ", "D">>, <<"A", "l">>},
     email : {<<>>, <<"a", "x">>, <<"a", "@", "x">>},
     age : {PyNone, PyInt(15), PyInt(20), PyStr(<<"x">>), PyStr(<<"3", "0">>), PyInf},
     major : {""},
     gpa : {PyNone, PyInt(4), PyFloat(9), PyFloat(-1), PyStr(<<"x">>),
            PyStr(<<"5">>), PyNaN, PyInf}]

\* stored grades for the listing: Grade.from_row of four rows, two students
StoredGrades ==
    {[id |-> 1, student_id |-> 1, course |-> <<"D", "a">>, grade |-> "A",
      semester |-> "Fall 2024", credits |-> 3, student_name |-> NoneText],
     [id |-> 2, student_id |-> 2, course |-> <<"D", "a">>, grade |-> "B-",
      semester |-> "Fall 2024", credits |-> 3, student_name |-> NoneText],
     [id |-> 3, student_id |-> 1, course |-> <<"D", "b">>, grade |-> "A",
      semester |-> "Fall 2024", credits |-> 4, student_name |-> NoneText],
     [id |-> 4, student_id |-> 2, course |-> <<"D", "b">>, grade |-> "F",
      semester |-> "Fall 2024", credits |-> 3, student_name |-> NoneText]}

\* what find_all can return: some of the rows, each once, in some order
Listings ==
    {l \in UNION {[1..n -> StoredGrades] : n \in 0..Cardinality(StoredGrades)} :
        \A i, j \in DOMAIN l : i # j => l[i] # l[j]}

\* rows for find_all: two with one semester and one course, a course in
\* lower case, a course with a % in it, and an older semester
SampleGrades ==
    {Grade(PyInt(1), <<"D", "a">>, "A", "Fall 2024", PyInt(4)),
     Grade(PyInt(2), <<"D", "a">>, "B", "Fall 2024", PyInt(3)),
     Grade(PyInt(1), <<"d", "a", "b">>, "A-", "Spring 2024", PyInt(3)),
     Grade(PyInt(2), <<"a", "%">>, "C", "Spring 2024", PyInt(2)),
     Grade(PyInt(1), <<"A", "b">>, "F", "Fall 2023", PyInt(4))}

\* the filters GET /api/grades passes on: int(student_id) or None, the
\* stripped course or None, the stripped semester or None
StudentIdFilters == {PyNone, PyInt(0), PyInt(1), PyInt(2)}

CourseFilters == {NoChars, Chars(<<"D">>), Chars(<<"a", "b">>), Chars(<<"%">>)}

SemesterFilters == {NoneText, Text("Fall 2024")}

\* the grades and names create_grade would pass to the webhook service
WebhookGrades ==
    {Grade(PyInt(1), <<"D", "a">>, "A", "Fall 2024", PyInt(4))}

WebhookNames == {"Alice Johnson", "Unknown"}

\* what response.json() raises on a body that is no JSON: JSONDecodeError
\* of requests (a RequestException), or plain ValueError before 2.27
JsonExceptions == {"JSONDecodeError", "ValueError"}

\* request.get_json() or {} of a notification: the payload the grade
\* service posts; the entries differ in their timestamps
NotificationBodies ==
    {build_payload(Grade(PyInt(1), <<"D", "a">>, "A", "Fall 2024", PyInt(4)),
                   "Alice Johnson", 0)}

\* what the student service does with one GET /api/students/<id>
StudentBehaviours ==
    {StudentReply(200, TRUE, TRUE, TRUE, "Alice Johnson"),
     StudentReply(404, FALSE, FALSE, FALSE, ""),
     StudentReply(500, FALSE, FALSE, FALSE, ""),
     StudentReply(200, TRUE, TRUE, FALSE, ""),
     StudentReply(200, FALSE, FALSE, FALSE, ""),
     StudentReplyNullName(200),
     StudentReplyBody(200, "array", ""),
     StudentReplyBody(200, "invalid", "JSONDecodeError"),
     StudentReplyBody(200, "invalid", "ValueError"),
     StudentFailure("ConnectionError"),
     StudentFailure("ReadTimeout")}

\* what the external endpoint does with one notification
EndpointBehaviours ==
    {EndpointReply(200, "application/json", TRUE),
     EndpointReply(200, "application/json; charset=utf-8", FALSE),
     EndpointReply(200, "text/html", FALSE),
     EndpointReply(200, "", FALSE),
     EndpointReply(201, "application/json", TRUE),
     EndpointReply(204, "", FALSE),
     EndpointReply(404, "text/html", FALSE),
     EndpointReply(500, "application/json", TRUE),
     EndpointFailure("ConnectTimeout", "connect timeout"),
     EndpointFailure("ReadTimeout", "read timeout"),
     EndpointFailure("ConnectionError", "connection refused"),
     EndpointFailure("SSLError", "certificate verify failed"),
     EndpointFailure("TooManyRedirects", "Exceeded 30 redirects")}

(***************************************************************************)
(* State.                                                                  *)
(***************************************************************************)
VARIABLES
    grades,        \* the rows of the grades table
    seq,           \* sqlite_sequence for grades: the largest key ever given
    pc,            \* where the request being served stands
    grade,         \* the Grade object of the create_grade call
    validation,    \* create_grade's local validation
    grade_id,      \* create_grade's local grade_id (None until the insert)
    student_name,  \* create_grade's local student_name
    result,        \* the CreateGradeResult returned
    del_result,    \* what delete_grade returned: (success, message)
    del_id,        \* delete_grade's argument grade_id
    calls,         \* the collaborator calls of this request, in order
    ext,           \* what the external endpoint did in this request
    stu,           \* how the student service took the two lookups
    grades0,       \* the grades table when the request came in
    issued,        \* the ids create_grade has returned so far
    sent,          \* the query parameters of the notification request
    http           \* the response of the POST /api/grades handler

\* the grade service
gvars == <<grades, seq, pc, grade, validation, grade_id, student_name, result,
           del_result, del_id, calls, ext, stu, grades0, issued, sent, http>>

Threads == 1..NumThreads

VARIABLES
    students,      \* the rows of the students table
    sseq,          \* sqlite_sequence for students
    conn,          \* the one sqlite3 connection that every thread uses
    spc,           \* where each thread's request stands
    sreq,          \* each thread's request: the operation and its argument
    cursor,        \* the cursor of each thread's Database.execute
    sres,          \* what the service call of each thread returned
    students0,     \* the students table when the thread's request came in
    own,           \* the key of the row the thread's INSERT added (0: none)
    sissued        \* the ids create_student has returned to callers so far

\* the student service
svars == <<students, sseq, conn, spc, sreq, cursor, sres, students0, own, sissued>>

VARIABLES
    validated      \* the last validation call: its input and what it gave

\* the validators called on their own
vvars == <<validated>>

VARIABLES
    epc,           \* where the get_all_grades call stands
    listing,       \* the list `grades` of get_all_grades
    ei,            \* the position of the for loop in it
    student_cache, \* the dict student_cache of the call
    name_calls,    \* the student ids get_student_name was called with
    lookup         \* the last get_student_name call: reply and outcome

\* the listing of grades
evars == <<epc, listing, ei, student_cache, name_calls, lookup>>

VARIABLES
    query,         \* the last find_all call: its arguments and the table
    find_result    \* the list it returned

\* find_all called on its own
fvars == <<query, find_result>>

VARIABLES
    dpc,           \* where each thread's delete_grade call stands
    dreq,          \* each thread's argument grade_id
    dres,          \* what each thread's delete_grade returned
    dgrades0,      \* the grades table when the thread's request came in
    removed        \* the ids of the rows the DELETE statements removed, in order

\* delete_grade requests served at the same time
dvars == <<dpc, dreq, dres, dgrades0, removed>>

VARIABLES
    webhook,       \* the WebhookService object: constructed, self.enabled
    wstatus,       \* self.status, the WebhookStatus counters
    wcall,         \* the last call: its name, the counters before it, its outcome
    wposts,        \* the number of requests.post calls made so far
    wnow           \* the number of calls so far, which datetime.now() reads

\* the webhook service
wvars == <<webhook, wstatus, wcall, wposts, wnow>>

VARIABLES
    received_webhooks, \* the list received_webhooks of the receiver
    rnow,              \* the number of notifications so far (datetime.now())
    rlast              \* the last request: its kind, the list before, the answer

\* the webhook receiver
rvars == <<received_webhooks, rnow, rlast>>

vars == <<gvars, svars, vvars, evars, fvars, dvars, wvars, rvars>>

\* what a step of one part leaves alone
besides_grades == <<svars, vvars, evars, fvars, dvars, wvars, rvars>>

besides_students == <<gvars, vvars, evars, fvars, dvars, wvars, rvars>>

besides_validators == <<gvars, svars, evars, fvars, dvars, wvars, rvars>>

besides_listing == <<gvars, svars, vvars, fvars, dvars, wvars, rvars>>

besides_find_all == <<svars, vvars, evars, dvars, wvars, rvars>>

besides_deletes == <<svars, vvars, evars, fvars, wvars, rvars>>

besides_webhook == <<gvars, svars, vvars, evars, fvars, dvars, rvars>>

besides_receiver == <<gvars, svars, vvars, evars, fvars, dvars, wvars>>

NoGrade == Grade(PyNone, <<>>, "", "", PyNone)

NoEgress == [present |-> FALSE, success |-> FALSE, blocked |-> FALSE, message |-> ""]

NoEndpoint == EndpointFailure("", "")

NoLookups == [exists |-> "", name |-> ""]

\* CreateGradeResult(success, message, grade_id=None, egress_result=None)
CreateGradeResult(success, message, gid, egress) ==
    [success |-> success, message |-> message, grade_id |-> gid,
     egress_result |-> egress]

NoResult == CreateGradeResult(FALSE, "", PyNone, NoEgress)

\* ValidationResult(is_valid, errors)
ValidationResult(is_valid, errors) == [is_valid |-> is_valid, errors |-> errors]

NoValidation == ValidationResult(FALSE, <<>>)

NoDelete == [success |-> FALSE, message |-> ""]

\* the params dict of requests.get in notify_grade_created (lines 74-79)
NotifyParams(name, course, grd) ==
    [event |-> "grade_created", student |-> name, course |-> course, grade |-> grd]

NoParams == [event |-> "", student |-> Text(""), course |-> <<>>, grade |-> ""]

\* what the client receives: the status, whether the body is the JSON the
\* handler built, its fields, and where an exception left the handler
HttpResponse(status, json, success, text, id, notification, unhandled) ==
    [status |-> status, json |-> json, success |-> success, text |-> text,
     id |-> id, notification |-> notification, unhandled |-> unhandled]

NoResponse == HttpResponse(0, FALSE, FALSE, "", PyNone, NoEgress, "")

\* an exception leaves the view function: the 500 handler of app.py answers,
\* or the debugger page of app.run(debug=True)
InternalServerError(debug, where) ==
    IF debug
    THEN HttpResponse(500, FALSE, FALSE, "", PyNone, NoEgress, where)
    ELSE HttpResponse(500, TRUE, FALSE, "Internal server error", PyNone, NoEgress,
                      where)

\* hasattr(obj, name) for an object given as a record
HasAttr(obj, name) == name \in DOMAIN obj

NoStudent == Student(<<>>, <<>>, PyNone, "", PyNone)

NoRequest == [op |-> "", student |-> NoStudent, id |-> 0]

NoCursor == [lastrowid |-> 0, rowcount |-> 0]

\* create_student returns (success, message, created_id), delete_student
\* (success, message)
StudentResult(success, message, id) ==
    [success |-> success, message |-> message, id |-> id]

NoStudentResult == StudentResult(FALSE, "", PyNone)

\* the state after StudentRepository(db): the table exists and is empty,
\* the connection is in autocommit mode
StudentInit ==
    /\ students = {}
    /\ sseq = 0
    /\ conn = [in_transaction |-> FALSE, last_insert_rowid |-> 0, changes |-> 0]
    /\ spc = [t \in Threads |-> "idle"]
    /\ sreq = [t \in Threads |-> NoRequest]
    /\ cursor = [t \in Threads |-> NoCursor]
    /\ sres = [t \in Threads |-> NoStudentResult]
    /\ students0 = [t \in Threads |-> {}]
    /\ own = [t \in Threads |-> 0]
    /\ sissued = {}

\* a validation call: the input, the exception that left the call, the
\* ValidationResult and the message create_grade makes of the errors
Validated(kind, g, st, exc, is_valid, errors, message) ==
    [kind |-> kind, grade |-> g, student |-> st, exc |-> exc,
     is_valid |-> is_valid, errors |-> errors, message |-> message]

NoValidated == Validated("", NoGrade, NoStudent, "", FALSE, <<>>, "")

NoStudentReply == StudentFailure("")

\* a get_student_name call: the argument, what the student service did,
\* the exception that left the call and the value it returned
Lookup(called, sid, reply, exc, name) ==
    [called |-> called, student_id |-> sid, reply |-> reply, exc |-> exc,
     name |-> name]

NoLookup == Lookup(FALSE, 0, NoStudentReply, "", NoneText)

\* no get_all_grades call under way
ListingInit ==
    /\ epc = "idle"
    /\ listing = <<>>
    /\ ei = 1
    /\ student_cache = [id \in {} |-> NoneText]
    /\ name_calls = <<>>
    /\ lookup = NoLookup

\* a find_all call: its arguments and the table it read
Query(called, student_id, course, semester, table) ==
    [called |-> called, student_id |-> student_id, course |-> course,
     semester |-> semester, table |-> table]

NoQuery == Query(FALSE, PyNone, NoChars, NoneText, {})

\* a call of the webhook service
WebhookCalled(op, before, call, payload) ==
    [op |-> op, before |-> before, result |-> call.result, exc |-> call.exc,
     posted |-> call.posted, payload |-> payload]

NoPayload == [event |-> "", timestamp |-> 0, data |-> NoGrade, message |-> <<>>]

NoWebhookCall ==
    WebhookCalled("", WebhookStatus,
                  WebhookCall(WebhookStatus, NoWebhookResult, "", 0), NoPayload)

\* a request the receiver has served
ReceiverRequest(op, before, response) ==
    [op |-> op, before |-> before, response |-> response]

NoReceiverRequest == ReceiverRequest("", <<>>, ReceiverResponse(0, "", 0))

\* the state after GradeRepository(db): the table exists and is empty
Init ==
    /\ StudentInit
    /\ ListingInit
    /\ query = NoQuery
    /\ find_result = <<>>
    /\ dpc = [t \in Threads |-> "idle"]
    /\ dreq = [t \in Threads |-> 0]
    /\ dres = [t \in Threads |-> NoDelete]
    /\ dgrades0 = [t \in Threads |-> {}]
    /\ removed = <<>>
    /\ webhook = [constructed |-> FALSE, enabled |-> FALSE]
    /\ wstatus = WebhookStatus
    /\ wcall = NoWebhookCall
    /\ wposts = 0
    /\ wnow = 0
    /\ received_webhooks = <<>>
    /\ rnow = 0
    /\ rlast = NoReceiverRequest
    /\ validated = NoValidated
    /\ grades = {}
    /\ seq = 0
    /\ pc = "idle"
    /\ grade = NoGrade
    /\ validation = NoValidation
    /\ grade_id = PyNone
    /\ student_name = Text("")
    /\ result = NoResult
    /\ del_result = NoDelete
    /\ del_id = 0
    /\ calls = <<>>
    /\ ext = NoEndpoint
    /\ stu = NoLookups
    /\ grades0 = {}
    /\ issued = {}
    /\ sent = NoParams
    /\ http = NoResponse

(***************************************************************************)
(* GradeService.create_grade, one action for each of its steps.            *)
(***************************************************************************)
\* create_grade whose validation failure does not return before the
\* existence check
CreateGradeValidateNoReturn(g) ==
    /\ pc = "idle"
    /\ seq < MaxId
    /\ LET v == validate_grade(g)
       IN  /\ grade' = v.grade
           /\ validation' = IF v.exc # "" THEN NoValidation
                             ELSE ValidationResult(v.is_valid, v.errors)
           /\ IF v.exc # ""
              THEN /\ pc' = "raised"
                   /\ result' = NoResult
                   /\ calls' = <<"validate_grade">>
              ELSE IF ~v.is_valid
              THEN /\ pc' = "returned"
                   /\ result' = CreateGradeResult(FALSE, Join(v.errors, "; "),
                                                  PyNone, NoEgress)
                   /\ calls' = <<"validate_grade", "student_exists">>
              ELSE /\ pc' = "student_exists"
                   /\ result' = NoResult
                   /\ calls' = <<"validate_grade">>
    /\ grades0' = grades
    /\ del_result' = NoDelete
    /\ del_id' = 0
    /\ UNCHANGED <<grades, seq, grade_id, student_name, ext, stu, issued>>
    /\ UNCHANGED <<sent, http>>
    /\ UNCHANGED besides_grades

\* the call and the validation (lines 150-156)
CreateGradeValidate(g) ==
    /\ pc = "idle"
    /\ seq < MaxId
    /\ LET v == validate_grade(g)
       IN  /\ grade' = v.grade
           /\ validation' = IF v.exc # "" THEN NoValidation
                             ELSE ValidationResult(v.is_valid, v.errors)
           /\ IF v.exc # ""
              THEN /\ pc' = "raised"
                   /\ result' = NoResult
              ELSE IF ~v.is_valid
              THEN /\ pc' = "returned"
                   /\ result' = CreateGradeResult(FALSE, Join(v.errors, "; "),
                                                  PyNone, NoEgress)
              ELSE /\ pc' = "student_exists"
                   /\ result' = NoResult
    /\ calls' = <<"validate_grade">>
    /\ grades0' = grades
    /\ del_result' = NoDelete
    /\ del_id' = 0
    /\ UNCHANGED <<grades, seq, grade_id, student_name, ext, stu, issued>>
    /\ UNCHANGED <<sent, http>>
    /\ UNCHANGED besides_grades

\* the existence check (lines 158-163)
CreateGradeStudentExists(reply) ==
    /\ pc = "student_exists"
    /\ calls' = Append(calls, "student_exists")
    /\ stu' = [stu EXCEPT !.exists = IF Unreachable(reply) THEN "unreachable"
                                     ELSE "answered"]
    /\ IF ~student_exists(reply)
       THEN /\ pc' = "returned"
            /\ result' = CreateGradeResult(FALSE, "Student not found", PyNone, NoEgress)
       ELSE /\ pc' = "get_student_name"
            /\ UNCHANGED result
    /\ UNCHANGED <<grades, seq, grade, validation, grade_id, student_name, del_result, del_id,
                   ext, grades0, issued>>
    /\ UNCHANGED <<sent, http>>
    /\ UNCHANGED besides_grades

\* the name lookup (lines 165-166)
CreateGradeStudentName(reply) ==
    /\ pc = "get_student_name"
    /\ calls' = Append(calls, "get_student_name")
    /\ stu' = [stu EXCEPT !.name = IF Unreachable(reply) THEN "unreachable"
                                   ELSE "answered"]
    /\ LET looked == get_student_name(reply)
       IN  IF looked.exc # ""
           THEN /\ pc' = "raised"
                /\ UNCHANGED student_name
           ELSE /\ pc' = "insert"
                /\ student_name' = looked.name
    /\ UNCHANGED <<grades, seq, grade, validation, grade_id, result, del_result, del_id, ext,
                   grades0, issued>>
    /\ UNCHANGED <<sent, http>>
    /\ UNCHANGED besides_grades

\* the insert and its except clause (lines 168-177)
CreateGradeInsert ==
    /\ pc = "insert"
    /\ calls' = Append(calls, "create")
    /\ LET ins == create(grades, seq, grade)
       IN  /\ grades' = ins.table
           /\ seq' = ins.counter
           /\ IF ins.exc # ""
              THEN /\ pc' = "returned"
                   /\ result' = CreateGradeResult(FALSE,
                                    "Failed to create grade: " \o ins.text,
                                    PyNone, NoEgress)
                   /\ UNCHANGED grade_id
              ELSE /\ pc' = "notify"
                   /\ grade_id' = PyInt(ins.lastrowid)
                   /\ UNCHANGED result
    /\ UNCHANGED <<grade, validation, student_name, del_result, del_id, ext, stu, grades0,
                   issued>>
    /\ UNCHANGED <<sent, http>>
    /\ UNCHANGED besides_grades

\* create_grade that takes a failed notification for a failed creation:
\* it removes the row again and reports failure
CreateGradeNotifyRollback(beh) ==
    /\ pc = "notify"
    /\ calls' = Append(calls, "notify_grade_created")
    /\ ext' = beh
    /\ pc' = "returned"
    /\ LET egress == notify_grade_created(beh)
       IN  IF egress.success
           THEN /\ result' = CreateGradeResult(TRUE, "Grade created successfully",
                                 grade_id,
                                 [present |-> TRUE, success |-> egress.success,
                                  blocked |-> egress.blocked,
                                  message |-> egress.message])
                /\ issued' = issued \cup {grade_id.n}
                /\ UNCHANGED grades
           ELSE /\ result' = CreateGradeResult(FALSE, egress.message, PyNone, NoEgress)
                /\ grades' = delete(grades, grade_id.n).table
                /\ UNCHANGED issued
    /\ UNCHANGED <<seq, grade, validation, grade_id, student_name, del_result, del_id, stu,
                   grades0>>
    /\ sent' = NotifyParams(student_name, grade.course, grade.grade)
    /\ UNCHANGED http
    /\ UNCHANGED besides_grades

\* create_grade that sends the notification a second time when the first
\* attempt was not delivered
CreateGradeNotifyRetry(beh) ==
    /\ pc = "notify"
    /\ ext' = beh
    /\ pc' = "returned"
    /\ LET egress == notify_grade_created(beh)
       IN  /\ calls' = IF egress.success
                        THEN Append(calls, "notify_grade_created")
                        ELSE calls \o <<"notify_grade_created", "notify_grade_created">>
           /\ result' = CreateGradeResult(TRUE, "Grade created successfully",
                             grade_id,
                             [present |-> TRUE, success |-> egress.success,
                              blocked |-> egress.blocked,
                              message |-> egress.message])
    /\ issued' = issued \cup {grade_id.n}
    /\ UNCHANGED <<grades, seq, grade, validation, grade_id, student_name, del_result, del_id,
                   stu, grades0>>
    /\ sent' = NotifyParams(student_name, grade.course, grade.grade)
    /\ UNCHANGED http
    /\ UNCHANGED besides_grades

\* the external notification and the return (lines 179-196)
CreateGradeNotify(beh) ==
    /\ pc = "notify"
    /\ calls' = Append(calls, "notify_grade_created")
    /\ ext' = beh
    /\ LET egress == notify_grade_created(beh)
       IN  IF egress.raised # ""
           THEN /\ pc' = "raised"
                /\ result' = NoResult
                /\ UNCHANGED issued
           ELSE /\ pc' = "returned"
                /\ result' = CreateGradeResult(TRUE, "Grade created successfully",
                                 grade_id,
                                 [present |-> TRUE, success |-> egress.success,
                                  blocked |-> egress.blocked,
                                  message |-> egress.message])
                /\ issued' = issued \cup {grade_id.n}
    /\ UNCHANGED <<grades, seq, grade, validation, grade_id, student_name, del_result, del_id,
                   stu, grades0>>
    /\ sent' = NotifyParams(student_name, grade.course, grade.grade)
    /\ UNCHANGED http
    /\ UNCHANGED besides_grades

\* GradeService.delete_grade (lines 198-212)
DeleteGrade(id) ==
    /\ pc = "idle"
    /\ grades0' = grades
    /\ del_id' = id
    /\ IF find_by_id(grades, id) = {}
       THEN /\ del_result' = [success |-> FALSE, message |-> "Grade not found"]
            /\ UNCHANGED grades
       ELSE LET d == delete(grades, id)
            IN  /\ grades' = d.table
                /\ del_result' = IF d.deleted
                                 THEN [success |-> TRUE,
                                       message |-> "Grade deleted successfully"]
                                 ELSE [success |-> FALSE,
                                       message |-> "Failed to delete grade"]
    /\ pc' = "deleted"
    /\ UNCHANGED <<seq, grade, validation, grade_id, student_name, result, calls, ext,
                   stu, issued>>
    /\ UNCHANGED <<sent, http>>
    /\ UNCHANGED besides_grades

\* the POST handler of grade_routes.py after create_grade (lines 80-101):
\* the response it builds from the CreateGradeResult
create_grade_response(res, debug) ==
    IF res.success
    THEN IF ~HasAttr(res, "webhook_result")
         THEN \* line 88: AttributeError
              InternalServerError(debug, "result.webhook_result")
         ELSE HttpResponse(201, TRUE, TRUE, res.message, res.grade_id,
                           res.webhook_result, "")
    ELSE HttpResponse(400, TRUE, FALSE, res.message, PyNone, NoEgress, "")

\* the handler answers the POST (lines 78-101, app.py lines 75-80)
CreateGradeRespond(debug) ==
    /\ pc \in {"returned", "raised"}
    /\ pc' = "responded"
    /\ http' = IF pc = "raised"
               THEN InternalServerError(debug, "create_grade")
               ELSE create_grade_response(result, debug)
    /\ UNCHANGED <<grades, seq, grade, validation, grade_id, student_name, result,
                   del_result, del_id, calls, ext, stu, grades0, issued, sent>>
    /\ UNCHANGED besides_grades

\* the client has the response; the next request may come
Done ==
    /\ pc \in {"responded", "deleted"}
    /\ sent' = NoParams
    /\ http' = NoResponse
    /\ pc' = "idle"
    /\ grade' = NoGrade
    /\ validation' = NoValidation
    /\ grade_id' = PyNone
    /\ student_name' = Text("")
    /\ result' = NoResult
    /\ del_result' = NoDelete
    /\ del_id' = 0
    /\ calls' = <<>>
    /\ ext' = NoEndpoint
    /\ stu' = NoLookups
    /\ grades0' = grades
    /\ UNCHANGED <<grades, seq, issued>>
    /\ UNCHANGED besides_grades

Next ==
    \/ \E g \in GradeInputs : CreateGradeValidate(g)
    \/ \E reply \in StudentBehaviours : CreateGradeStudentExists(reply)
    \/ \E reply \in StudentBehaviours : CreateGradeStudentName(reply)
    \/ CreateGradeInsert
    \/ \E beh \in EndpointBehaviours : CreateGradeNotify(beh)
    \/ \E debug \in BOOLEAN : CreateGradeRespond(debug)
    \/ \E id \in 0..MaxId : DeleteGrade(id)
    \/ Done

Spec == Init /\ [][Next]_vars

(***************************************************************************)
(* StudentService.create_student and delete_student, one action for each   *)
(* step of a thread.  Database.execute is cursor.execute followed by       *)
(* connection.commit() on the connection all threads share, with no lock:  *)
(* the sqlite3 module opens the transaction, runs the statement, reads     *)
(* last_insert_rowid and changes from the connection, and commits, and a   *)
(* thread switch may come between any two of these.                        *)
(***************************************************************************)
\* the service call of thread t ends: create_student catches the exception
\* of the repository (lines 119-123), delete_student does not
Raised(t, text) ==
    IF sreq[t].op = "create_student"
    THEN /\ spc' = [spc EXCEPT ![t] = "returned"]
         /\ sres' = [sres EXCEPT ![t] =
                StudentResult(FALSE, "Failed to create student: " \o text, PyNone)]
    ELSE /\ spc' = [spc EXCEPT ![t] = "raised"]
         /\ UNCHANGED sres

\* Database.execute has returned the cursor c: StudentRepository.create
\* returns cursor.lastrowid (line 127), delete returns rowcount > 0 (line
\* 155), and the service builds its result from it
Executed(t, c) ==
    /\ spc' = [spc EXCEPT ![t] = "returned"]
    /\ sres' = [sres EXCEPT ![t] =
            IF sreq[t].op = "create_student"
            THEN StudentResult(TRUE, "Student created successfully", PyInt(c.lastrowid))
            ELSE IF c.rowcount > 0
                 THEN StudentResult(TRUE, "Student deleted successfully", PyNone)
                 ELSE StudentResult(FALSE, "Failed to delete student", PyNone)]

\* create_student: the call and the validation (lines 108-111)
CreateStudentValidate(t, st) ==
    /\ spc[t] = "idle"
    /\ sseq < MaxId
    /\ LET v == validate_student(st)
       IN  /\ sreq' = [sreq EXCEPT ![t] =
                  [op |-> "create_student", student |-> v.student, id |-> 0]]
           /\ IF v.exc # ""
              THEN /\ spc' = [spc EXCEPT ![t] = "raised"]
                   /\ UNCHANGED sres
              ELSE IF ~v.is_valid
              THEN /\ spc' = [spc EXCEPT ![t] = "returned"]
                   /\ sres' = [sres EXCEPT ![t] =
                          StudentResult(FALSE, Join(v.errors, "; "), PyNone)]
              ELSE /\ spc' = [spc EXCEPT ![t] = "find_by_email"]
                   /\ UNCHANGED sres
    /\ students0' = [students0 EXCEPT ![t] = students]
    /\ UNCHANGED <<students, sseq, conn, cursor, own, sissued>>
    /\ UNCHANGED besides_students

\* create_student: the duplicate check (lines 113-116)
CreateStudentFindByEmail(t) ==
    /\ spc[t] = "find_by_email"
    /\ IF find_by_email(students, sreq[t].student.email) # {}
       THEN /\ spc' = [spc EXCEPT ![t] = "returned"]
            /\ sres' = [sres EXCEPT ![t] =
                   StudentResult(FALSE, "Email already exists", PyNone)]
       ELSE /\ spc' = [spc EXCEPT ![t] = "execute"]
            /\ UNCHANGED sres
    /\ UNCHANGED <<students, sseq, conn, sreq, cursor, students0, own, sissued>>
    /\ UNCHANGED besides_students

\* delete_student: the call and the lookup (lines 132-134)
DeleteStudentFindById(t, id) ==
    /\ spc[t] = "idle"
    /\ sreq' = [sreq EXCEPT ![t] = [op |-> "delete_student", student |-> NoStudent,
                                    id |-> id]]
    /\ IF find_student_by_id(students, id) = {}
       THEN /\ spc' = [spc EXCEPT ![t] = "returned"]
            /\ sres' = [sres EXCEPT ![t] =
                   StudentResult(FALSE, "Student not found", PyNone)]
       ELSE /\ spc' = [spc EXCEPT ![t] = "execute"]
            /\ UNCHANGED sres
    /\ students0' = [students0 EXCEPT ![t] = students]
    /\ UNCHANGED <<students, sseq, conn, cursor, own, sissued>>
    /\ UNCHANGED besides_students

\* cursor.execute: the statement changes data, so the module looks whether
\* the connection is in autocommit mode
ExecuteBeginCheck(t) ==
    /\ spc[t] = "execute"
    /\ spc' = [spc EXCEPT ![t] = IF conn.in_transaction THEN "step" ELSE "begin"]
    /\ UNCHANGED <<students, sseq, conn, sreq, cursor, sres, students0, own, sissued>>
    /\ UNCHANGED besides_students

\* cursor.execute: BEGIN
ExecuteBegin(t) ==
    /\ spc[t] = "begin"
    /\ IF conn.in_transaction
       THEN /\ Raised(t, "cannot start a transaction within a transaction")
            /\ UNCHANGED conn
       ELSE /\ conn' = [conn EXCEPT !.in_transaction = TRUE]
            /\ spc' = [spc EXCEPT ![t] = "step"]
            /\ UNCHANGED sres
    /\ UNCHANGED <<students, sseq, sreq, cursor, students0, own, sissued>>
    /\ UNCHANGED besides_students

\* cursor.execute: the INSERT or the DELETE runs
ExecuteStep(t) ==
    /\ spc[t] = "step"
    /\ IF sreq[t].op = "create_student"
       THEN LET ins == insert_student(students, sseq, sreq[t].student)
            IN  IF ins.exc # ""
                THEN /\ Raised(t, ins.text)
                     /\ UNCHANGED <<students, sseq, conn, own>>
                ELSE /\ students' = ins.table
                     /\ sseq' = ins.counter
                     /\ conn' = [conn EXCEPT !.last_insert_rowid = ins.rowid,
                                             !.changes = 1]
                     /\ own' = [own EXCEPT ![t] = ins.rowid]
                     /\ spc' = [spc EXCEPT ![t] = "cursor"]
                     /\ UNCHANGED sres
       ELSE LET del == delete_student_row(students, sreq[t].id)
            IN  /\ students' = del.table
                /\ conn' = [conn EXCEPT !.changes = del.changes]
                /\ spc' = [spc EXCEPT ![t] = "cursor"]
                /\ UNCHANGED <<sseq, own, sres>>
    /\ UNCHANGED <<sreq, cursor, students0, sissued>>
    /\ UNCHANGED besides_students

\* cursor.execute: lastrowid and rowcount are read from the connection
ExecuteCursor(t) ==
    /\ spc[t] = "cursor"
    /\ cursor' = [cursor EXCEPT ![t] = [lastrowid |-> conn.last_insert_rowid,
                                        rowcount |-> conn.changes]]
    /\ spc' = [spc EXCEPT ![t] = "commit"]
    /\ UNCHANGED <<students, sseq, conn, sreq, sres, students0, own, sissued>>
    /\ UNCHANGED besides_students

\* connection.commit(): nothing to do in autocommit mode
ExecuteCommitCheck(t) ==
    /\ spc[t] = "commit"
    /\ IF conn.in_transaction
       THEN /\ spc' = [spc EXCEPT ![t] = "commit_step"]
            /\ UNCHANGED sres
       ELSE Executed(t, cursor[t])
    /\ UNCHANGED <<students, sseq, conn, sreq, cursor, students0, own, sissued>>
    /\ UNCHANGED besides_students

\* connection.commit(): COMMIT
ExecuteCommit(t) ==
    /\ spc[t] = "commit_step"
    /\ IF conn.in_transaction
       THEN /\ conn' = [conn EXCEPT !.in_transaction = FALSE]
            /\ Executed(t, cursor[t])
       ELSE /\ Raised(t, "cannot commit - no transaction is active")
            /\ UNCHANGED conn
    /\ UNCHANGED <<students, sseq, sreq, cursor, students0, own, sissued>>
    /\ UNCHANGED besides_students

\* the caller of thread t has the result (or the exception)
StudentDone(t) ==
    /\ spc[t] \in {"returned", "raised"}
    /\ spc' = [spc EXCEPT ![t] = "idle"]
    /\ sissued' = IF spc[t] = "returned" /\ sreq[t].op = "create_student"
                     /\ sres[t].success
                  THEN sissued \cup {sres[t].id.n} ELSE sissued
    /\ sreq' = [sreq EXCEPT ![t] = NoRequest]
    /\ cursor' = [cursor EXCEPT ![t] = NoCursor]
    /\ sres' = [sres EXCEPT ![t] = NoStudentResult]
    /\ students0' = [students0 EXCEPT ![t] = {}]
    /\ own' = [own EXCEPT ![t] = 0]
    /\ UNCHANGED <<students, sseq, conn>>
    /\ UNCHANGED besides_students

\* no request is being served
AllIdle == \A t \in Threads : spc[t] = "idle"

\* the steps of a request that is under way
StudentStep(t) ==
    \/ CreateStudentFindByEmail(t)
    \/ ExecuteBeginCheck(t)
    \/ ExecuteBegin(t)
    \/ ExecuteStep(t)
    \/ ExecuteCursor(t)
    \/ ExecuteCommitCheck(t)
    \/ ExecuteCommit(t)
    \/ StudentDone(t)

\* requests come one after the other
StudentNextSeq ==
    \/ \E t \in Threads, st \in StudentInputs : AllIdle /\ CreateStudentValidate(t, st)
    \/ \E t \in Threads, id \in 0..MaxId : AllIdle /\ DeleteStudentFindById(t, id)
    \/ \E t \in Threads : StudentStep(t)

SpecStudentsSeq == Init /\ [][StudentNextSeq]_vars

\* requests come at any time, each served by its own thread
StudentNext ==
    \/ \E t \in Threads, st \in StudentInputs : CreateStudentValidate(t, st)
    \/ \E t \in Threads, id \in 0..MaxId : DeleteStudentFindById(t, id)
    \/ \E t \in Threads : StudentStep(t)

SpecStudents == Init /\ [][StudentNext]_vars

(***************************************************************************)
(* GradeService.get_all_grades with enrich=True: the list that find_all    *)
(* returned and the loop of _enrich_with_student_names over it.            *)
(***************************************************************************)
\* get_all_grades: find_all has returned `found` (line 112), the cache is
\* empty (line 220)
GetAllGrades(found) ==
    /\ epc = "idle"
    /\ listing' = found
    /\ ei' = 1
    /\ student_cache' = [id \in {} |-> NoneText]
    /\ name_calls' = <<>>
    /\ lookup' = NoLookup
    /\ epc' = IF found = <<>> THEN "returned" ELSE "enrich"
    /\ UNCHANGED besides_listing

\* the loop body without the cache: every grade is looked up
EnrichLookupNoCache(reply) ==
    /\ epc = "enrich"
    /\ LET sid == listing[ei].student_id
           looked == get_student_name(reply)
       IN  /\ Len(name_calls) < ei
           /\ name_calls' = Append(name_calls, sid)
           /\ lookup' = Lookup(TRUE, sid, reply, looked.exc, looked.name)
           /\ IF looked.exc # ""
              THEN /\ epc' = "raised"
                   /\ UNCHANGED student_cache
              ELSE /\ student_cache' =
                        [id \in DOMAIN student_cache \cup {sid} |->
                            IF id = sid THEN looked.name ELSE student_cache[id]]
                   /\ UNCHANGED epc
    /\ UNCHANGED <<listing, ei>>
    /\ UNCHANGED besides_listing

\* the loop body on a student id that is not in the cache (lines 223-226)
EnrichLookup(reply) ==
    /\ epc = "enrich"
    /\ LET sid == listing[ei].student_id
           looked == get_student_name(reply)
       IN  /\ sid \notin DOMAIN student_cache
           /\ name_calls' = Append(name_calls, sid)
           /\ lookup' = Lookup(TRUE, sid, reply, looked.exc, looked.name)
           /\ IF looked.exc # ""
              THEN /\ epc' = "raised"
                   /\ UNCHANGED student_cache
              ELSE /\ student_cache' =
                        [id \in DOMAIN student_cache \cup {sid} |->
                            IF id = sid THEN looked.name ELSE student_cache[id]]
                   /\ UNCHANGED epc
    /\ UNCHANGED <<listing, ei>>
    /\ UNCHANGED besides_listing

\* the name goes into the grade (line 227) and the loop moves on
EnrichAttach ==
    /\ epc = "enrich"
    /\ listing[ei].student_id \in DOMAIN student_cache
    /\ listing' = [listing EXCEPT ![ei].student_name =
                        student_cache[listing[ei].student_id]]
    /\ ei' = ei + 1
    /\ epc' = IF ei = Len(listing) THEN "returned" ELSE "enrich"
    /\ UNCHANGED <<student_cache, name_calls, lookup>>
    /\ UNCHANGED besides_listing

\* the caller has the list (or the exception)
ListingDone ==
    /\ epc \in {"returned", "raised"}
    /\ epc' = "idle"
    /\ listing' = <<>>
    /\ ei' = 1
    /\ student_cache' = [id \in {} |-> NoneText]
    /\ name_calls' = <<>>
    /\ lookup' = NoLookup
    /\ UNCHANGED besides_listing

ListingNext ==
    \/ \E found \in Listings : GetAllGrades(found)
    \/ \E reply \in StudentBehaviours : EnrichLookup(reply)
    \/ EnrichAttach
    \/ ListingDone

SpecListing == Init /\ [][ListingNext]_vars

(***************************************************************************)
(* GradeRepository.find_all on a table that seed_sample_data fills.        *)
(***************************************************************************)
\* one INSERT of seed_sample_data (lines 61-65), the statement of create
SeedGrade(g) ==
    /\ pc = "idle"
    /\ seq < MaxId
    /\ LET ins == create(grades, seq, g)
       IN  /\ grades' = ins.table
           /\ seq' = ins.counter
    /\ UNCHANGED <<pc, grade, validation, grade_id, student_name, result,
                   del_result, del_id, calls, ext, stu, grades0, issued, sent,
                   http>>
    /\ UNCHANGED fvars
    /\ UNCHANGED besides_find_all

\* find_all(student_id, course, semester) on the table as it is
FindAll(student_id, course, semester) ==
    /\ pc = "idle"
    /\ \E l \in find_all(grades, student_id, course, semester) : find_result' = l
    /\ query' = Query(TRUE, student_id, course, semester, grades)
    /\ UNCHANGED gvars
    /\ UNCHANGED besides_find_all

FindAllNext ==
    \/ \E g \in SampleGrades : SeedGrade(g)
    \/ \E student_id \in StudentIdFilters, course \in CourseFilters,
            semester \in SemesterFilters : FindAll(student_id, course, semester)

SpecFindAll == Init /\ [][FindAllNext]_vars

(***************************************************************************)
(* GradeService.delete_grade served by several threads at once (app.run    *)
(* serves each request in a thread of its own).  Each call of the          *)
(* repository is one step: the store is taken to serialize its statements. *)
(***************************************************************************)
\* the request comes in and find_by_id runs (lines 205-207)
DeleteGradeFindById(t, id) ==
    /\ dpc[t] = "idle"
    /\ dreq' = [dreq EXCEPT ![t] = id]
    /\ dgrades0' = [dgrades0 EXCEPT ![t] = grades]
    /\ IF find_by_id(grades, id) = {}
       THEN /\ dpc' = [dpc EXCEPT ![t] = "returned"]
            /\ dres' = [dres EXCEPT ![t] =
                            [success |-> FALSE, message |-> "Grade not found"]]
       ELSE /\ dpc' = [dpc EXCEPT ![t] = "delete"]
            /\ dres' = [dres EXCEPT ![t] = NoDelete]
    /\ UNCHANGED removed
    /\ UNCHANGED gvars
    /\ UNCHANGED besides_deletes

\* repository.delete(grade_id) and the answer made of it (lines 209-212)
DeleteGradeDelete(t) ==
    /\ dpc[t] = "delete"
    /\ LET d == delete(grades, dreq[t])
       IN  /\ grades' = d.table
           /\ removed' = IF d.deleted THEN Append(removed, dreq[t]) ELSE removed
           /\ dres' = [dres EXCEPT ![t] =
                IF d.deleted
                THEN [success |-> TRUE, message |-> "Grade deleted successfully"]
                ELSE [success |-> FALSE, message |-> "Failed to delete grade"]]
    /\ dpc' = [dpc EXCEPT ![t] = "returned"]
    /\ UNCHANGED <<dreq, dgrades0>>
    /\ UNCHANGED <<seq, pc, grade, validation, grade_id, student_name, result,
                   del_result, del_id, calls, ext, stu, grades0, issued, sent,
                   http>>
    /\ UNCHANGED besides_deletes

\* the handler has answered; the thread takes the next request
DeleteGradeDone(t) ==
    /\ dpc[t] = "returned"
    /\ dpc' = [dpc EXCEPT ![t] = "idle"]
    /\ dreq' = [dreq EXCEPT ![t] = 0]
    /\ dres' = [dres EXCEPT ![t] = NoDelete]
    /\ dgrades0' = [dgrades0 EXCEPT ![t] = {}]
    /\ UNCHANGED removed
    /\ UNCHANGED gvars
    /\ UNCHANGED besides_deletes

DeleteNext ==
    \/ \E g \in SampleGrades : SeedGrade(g)
    \/ \E t \in Threads, id \in 1..MaxId : DeleteGradeFindById(t, id)
    \/ \E t \in Threads : DeleteGradeDelete(t)
    \/ \E t \in Threads : DeleteGradeDone(t)

SpecDeletes == Init /\ [][DeleteNext]_vars

(***************************************************************************)
(* WebhookService: its construction and its two calls.                     *)
(***************************************************************************)
\* WebhookService(enabled=...) (lines 28-42)
WebhookServiceInit(enabled) ==
    /\ ~webhook.constructed
    /\ webhook' = [constructed |-> TRUE, enabled |-> enabled]
    /\ wstatus' = WebhookStatus
    /\ UNCHANGED <<wcall, wposts, wnow>>
    /\ UNCHANGED besides_webhook

\* send_grade_notification(grade, student_name)
SendGradeNotification(g, name, beh, json_exc) ==
    /\ webhook.constructed
    /\ wnow < MaxCalls
    /\ wnow' = wnow + 1
    /\ LET call == send_grade_notification(webhook.enabled, wstatus, beh,
                                           json_exc, wnow')
       IN  /\ wstatus' = call.status
           /\ wposts' = wposts + call.posted
           /\ wcall' = WebhookCalled("send_grade_notification", wstatus, call,
                            IF call.posted > 0
                            THEN build_payload(g, name, wnow')
                            ELSE NoPayload)
    /\ UNCHANGED webhook
    /\ UNCHANGED besides_webhook

\* test_connection()
TestConnection(beh, json_exc) ==
    /\ webhook.constructed
    /\ wnow < MaxCalls
    /\ wnow' = wnow + 1
    /\ LET call == test_connection(wstatus, beh, json_exc, wnow')
       IN  /\ wstatus' = call.status
           /\ wposts' = wposts + call.posted
           /\ wcall' = WebhookCalled("test_connection", wstatus, call,
                                     test_payload(wnow'))
    /\ UNCHANGED webhook
    /\ UNCHANGED besides_webhook

WebhookNext ==
    \/ \E enabled \in BOOLEAN : WebhookServiceInit(enabled)
    \/ \E g \in WebhookGrades, name \in WebhookNames,
            beh \in EndpointBehaviours, json_exc \in JsonExceptions :
            SendGradeNotification(g, name, beh, json_exc)
    \/ \E beh \in EndpointBehaviours, json_exc \in JsonExceptions :
            TestConnection(beh, json_exc)

SpecWebhook == Init /\ [][WebhookNext]_vars

(***************************************************************************)
(* The webhook receiver, one request at a time.                            *)
(***************************************************************************)
\* POST /webhook/grade-notification
ReceiveGradeNotification(data) ==
    /\ rnow < MaxArrivals
    /\ rnow' = rnow + 1
    /\ LET served == receive_grade_notification(received_webhooks, data, rnow',
                                                "10.0.0.1")
       IN  /\ received_webhooks' = served.history
           /\ rlast' = ReceiverRequest("grade-notification", received_webhooks,
                                       served.response)
    /\ UNCHANGED besides_receiver

\* POST /webhook/clear
ClearHistory ==
    /\ LET served == clear_history(received_webhooks)
       IN  /\ received_webhooks' = served.history
           /\ rlast' = ReceiverRequest("clear", received_webhooks, served.response)
    /\ UNCHANGED rnow
    /\ UNCHANGED besides_receiver

ReceiverNext ==
    \/ \E data \in NotificationBodies : ReceiveGradeNotification(data)
    \/ ClearHistory

SpecReceiver == Init /\ [][ReceiverNext]_vars

(***************************************************************************)
(* The validators on every combination of field values.                    *)
(***************************************************************************)
\* validate_grade(grade) as create_grade calls it (lines 150-156)
ValidateGrade(g) ==
    /\ validated.kind = ""
    /\ LET v == validate_grade(g)
       IN  validated' =
             IF v.exc # ""
             THEN Validated("grade", g, NoStudent, v.exc, FALSE, <<>>, "")
             ELSE Validated("grade", g, NoStudent, "", v.is_valid, v.errors,
                            IF ~v.is_valid THEN Join(v.errors, "; ") ELSE "")
    /\ UNCHANGED besides_validators

\* validate_student(student) as create_student calls it (lines 108-111)
ValidateStudent(st) ==
    /\ validated.kind = ""
    /\ LET v == validate_student(st)
       IN  validated' =
             IF v.exc # ""
             THEN Validated("student", NoGrade, st, v.exc, FALSE, <<>>, "")
             ELSE Validated("student", NoGrade, st, "", v.is_valid, v.errors,
                            IF ~v.is_valid THEN Join(v.errors, "; ") ELSE "")
    /\ UNCHANGED besides_validators

\* the caller has the ValidationResult (or the exception)
ValidateDone ==
    /\ validated.kind # ""
    /\ validated' = NoValidated
    /\ UNCHANGED besides_validators

ValidateNext ==
    \/ \E g \in GradeFieldValues : ValidateGrade(g)
    \/ \E st \in StudentFieldValues : ValidateStudent(st)
    \/ ValidateDone

SpecValidate == Init /\ [][ValidateNext]_vars

(***************************************************************************)
(* Properties.                                                             *)
(***************************************************************************)
CallOrder == <<"validate_grade", "student_exists", "get_student_name", "create",
               "notify_grade_created">>

CountOf(xs, x) == Cardinality({i \in DOMAIN xs : xs[i] = x})

\* the notification outcome attached to the result
Egress == result.egress_result

\* the row the insert of this request added
Inserted == grade_id # PyNone

\* C1: once repository.create has succeeded, create_grade returns
\* success=True with "Grade created successfully" and the new grade_id,
\* whatever the notifier's outcome; that outcome is attached to the result
\* and the row stays in the table.
C1_PersistenceIsAuthoritative ==
    Inserted =>
        /\ pc \in {"notify", "returned", "responded"}
        /\ \E r \in grades :
              /\ r.id = grade_id.n
              /\ r \notin grades0
              /\ grades = grades0 \cup {r}
        /\ pc = "returned" =>
              /\ result.success
              /\ result.message = "Grade created successfully"
              /\ result.grade_id = grade_id
              /\ Egress.present
              /\ LET outcome == notify_grade_created(ext)
                 IN  /\ Egress.success = outcome.success
                     /\ Egress.blocked = outcome.blocked
                     /\ Egress.message = outcome.message

\* a creation reported as successful although the notifier ended in an
\* unexpected error
C1_Witness ==
    /\ pc = "returned"
    /\ Inserted
    /\ ext.exc = "TooManyRedirects"
    /\ result.success
    /\ ~Egress.success /\ ~Egress.blocked

\* C2: a create_grade call that persists a grade invokes the external
\* notifier exactly once, and only with the inserted row already committed
\* to the table, never before the insert.
C2_NotifyOnceAfterCommit ==
    /\ CountOf(calls, "notify_grade_created") <= 1
    /\ (pc = "returned" /\ grades # grades0) =>
            CountOf(calls, "notify_grade_created") = 1
    /\ \A i \in DOMAIN calls :
            calls[i] = "notify_grade_created" =>
                /\ \E j \in 1..(i - 1) : calls[j] = "create"
                /\ \E r \in grades : r.id = grade_id.n
    /\ pc = "notify" =>
            /\ CountOf(calls, "notify_grade_created") = 0
            /\ calls[Len(calls)] = "create"
            /\ \E r \in grades : r.id = grade_id.n

\* a delivered notification: one notifier call, after the insert
C2_Witness ==
    /\ pc = "returned"
    /\ grades # grades0
    /\ CountOf(calls, "notify_grade_created") = 1
    /\ ext.status = 200
    /\ Egress.success

\* C3: the steps run in the order validate, student_exists,
\* get_student_name, insert, notify and stop at the first failure; whenever
\* create_grade returns success=False the grades table is as it was and the
\* notifier has not been called, and after a validation failure the student
\* service has not been called either.
C3_FailureStopsTheWorkflow ==
    /\ calls = SubSeq(CallOrder, 1, Len(calls))
    /\ (pc = "returned" /\ ~validation.is_valid) => ~result.success
    /\ (pc = "returned" /\ ~result.success) =>
        /\ grades = grades0
        /\ CountOf(calls, "notify_grade_created") = 0
        /\ ext = NoEndpoint
        /\ result.grade_id = PyNone
        /\ ~Egress.present
        /\ \/ /\ ~validation.is_valid
              /\ calls = <<"validate_grade">>
              /\ stu = NoLookups
              /\ result.message = Join(validation.errors, "; ")
           \/ /\ validation.is_valid
              /\ calls = SubSeq(CallOrder, 1, 2)
              /\ result.message = "Student not found"
           \/ /\ validation.is_valid
              /\ calls = SubSeq(CallOrder, 1, 4)
              /\ result.message
                    = "Failed to create grade: NOT NULL constraint failed: grades.credits"

\* the insert raised: failure returned after four steps
C3_Witness ==
    /\ pc = "returned"
    /\ ~result.success
    /\ Len(calls) = 4

\* the student service could not be reached for either lookup
StudentServiceDown == stu.exists = "unreachable" /\ stu.name = "unreachable"

C5_TimeoutIsBlockedNotFailed ==
    (pc = "returned" /\ Inserted /\ ext.exc \in {"Timeout", "ConnectTimeout", "ReadTimeout"}) =>
        /\ result.success
        /\ result.grade_id = grade_id
        /\ \E r \in grades \ grades0 : r.id = grade_id.n
        /\ Egress.present
        /\ Egress.blocked
        /\ ~Egress.success

\* a read timeout of the endpoint after a committed insert
C5_Witness ==
    /\ pc = "returned"
    /\ Inserted
    /\ ext.exc = "ReadTimeout"
    /\ result.success
    /\ Egress.blocked

\* the outbound call ended in a connection failure or a timeout
CallDidNotConnect ==
    ext.exc \in {"Timeout", "ConnectTimeout", "ReadTimeout", "ConnectionError",
                 "SSLError", "ProxyError"}

\* C6: the notifier's outcome has blocked=True exactly when the outbound call
\* ended in a connection failure or a timeout; a response with a status
\* outside 2xx gives success=False, blocked=False and the status in the
\* message; any other failure gives success=False, blocked=False; success
\* and blocked are never both True.
C6_BlockedClassification ==
    (pc = "returned" /\ Egress.present) =>
        /\ Egress.blocked <=> CallDidNotConnect
        /\ CallDidNotConnect => ~Egress.success
        /\ (ext.exc = "" /\ ext.status \notin 200..299) =>
                /\ ~Egress.success
                /\ ~Egress.blocked
                /\ Egress.message
                      = "External service returned status " \o ToString(ext.status)
        /\ (ext.exc # "" /\ ~CallDidNotConnect) =>
                /\ ~Egress.success
                /\ ~Egress.blocked
        /\ ~(Egress.success /\ Egress.blocked)

\* a 404 of the endpoint, reported as a failure that is not a block
C6_Witness ==
    /\ pc = "returned"
    /\ ext.exc = ""
    /\ ext.status = 404
    /\ ~Egress.success /\ ~Egress.blocked
    /\ Egress.message = "External service returned status 404"

\* C7: whenever the endpoint is reached and answers with a success response
\* (any 2xx status, any content type, any body) the outcome has success=True
\* and blocked=False.
C7_EverySuccessResponseDelivered ==
    (pc = "returned" /\ Egress.present /\ ext.exc = "" /\ ext.status \in 200..299) =>
        /\ Egress.success
        /\ ~Egress.blocked

\* C8: notify_grade_created never raises to its caller: whatever the
\* endpoint does (success, non-success status, timeout, connection error,
\* malformed body, any other exception) it returns a result with success,
\* blocked and message populated.
C8_NotifierNeverRaises ==
    CountOf(calls, "notify_grade_created") > 0 =>
        /\ pc \in {"returned", "responded"}
        /\ Egress.present
        /\ Egress.success \in BOOLEAN
        /\ Egress.blocked \in BOOLEAN
        /\ Egress.message # ""

\* a 200 whose JSON body does not parse: response.json() raises inside the
\* try block and the call still returns a result
C8_Witness ==
    /\ pc = "returned"
    /\ ext.exc = ""
    /\ ext.status = 200
    /\ ~ext.json_ok
    /\ Egress.present
    /\ Egress.message = "Unexpected error: Expecting value"

\* C9: every input that passes validate_grade and references an existing
\* student makes create_grade add exactly one row and return an id greater
\* than every id returned before, across creates and deletes.
C9_ValidInputGetsFreshId ==
    /\ (pc = "returned" /\ validation.is_valid /\ stu.exists = "answered"
            /\ result.message # "Student not found") =>
            /\ result.success
            /\ \E r \in grades :
                  /\ PyInt(r.id) = result.grade_id
                  /\ r \notin grades0
                  /\ grades = grades0 \cup {r}
    /\ pc = "notify" => \A i \in issued : i < grade_id.n

\* the grade enum of the data model
GradeEnum == {"A", "A-", "B+", "B", "B-", "C+", "C", "C-", "D", "F"}

\* C10: for every input whose grade value is non-empty and not in the enum,
\* validate_grade reports "Invalid grade" exactly once and not "Grade is
\* required", and create_grade returns success=False without calling the
\* student service, the insert or the notifier.
C10_InvalidGradeRejected ==
    (pc \in {"returned", "raised", "student_exists"}
        /\ grade.grade # "" /\ grade.grade \notin GradeEnum) =>
        /\ pc = "returned"
        /\ ~result.success
        /\ CountOf(validation.errors, ErrInvalidGrade) = 1
        /\ CountOf(validation.errors, ErrGradeRequired) = 0
        /\ calls = <<"validate_grade">>
        /\ grades = grades0

(***************************************************************************)
(* C11.  delete_grade on an id that is not in the store returns            *)
(* (False, "Grade not found") and leaves the store as it was; on an id     *)
(* that is in the store it returns success, removes that row and no        *)
(* other, and find_by_id for the same id then finds nothing.               *)
(***************************************************************************)
C11_DeleteRemovesExactlyThatRow ==
    pc = "deleted" =>
        IF \A r \in grades0 : r.id # del_id
        THEN /\ del_result = [success |-> FALSE, message |-> "Grade not found"]
             /\ grades = grades0
        ELSE /\ del_result = [success |-> TRUE,
                              message |-> "Grade deleted successfully"]
             /\ grades = {r \in grades0 : r.id # del_id}
             /\ Cardinality(grades) = Cardinality(grades0) - 1
             /\ find_by_id(grades, del_id) = {}

\* an existing grade was deleted while another grade was in the store
C11_Witness ==
    /\ pc = "deleted"
    /\ del_result.success
    /\ grades # {}
    /\ grades # grades0

(***************************************************************************)
(* C12.  With requests served one after the other: create_student with a   *)
(* valid student whose email is in the store returns (False, "Email        *)
(* already exists", None) and adds nothing; with a valid student whose     *)
(* email is not in the store it succeeds and adds that student under the   *)
(* id it returns.  Whatever create_student and delete_student calls were   *)
(* made, no two rows of the store have the same email.                     *)
(***************************************************************************)
OnePerEmail == \A r1, r2 \in students : r1.email = r2.email => r1 = r2

C12_DuplicateEmailRejected ==
    /\ OnePerEmail
    /\ \A t \in Threads :
        (/\ spc[t] = "returned"
         /\ sreq[t].op = "create_student"
         /\ validate_student(sreq[t].student).is_valid)
        => IF \E r \in students0[t] : r.email = sreq[t].student.email
           THEN /\ sres[t] = StudentResult(FALSE, "Email already exists", PyNone)
                /\ students = students0[t]
           ELSE /\ sres[t].success
                /\ sres[t].id.t = "int"
                /\ \E r \in students :
                     /\ r.id = sres[t].id.n
                     /\ r.email = sreq[t].student.email
                     /\ students = students0[t] \cup {r}
                     /\ r \notin students0[t]

\* a second student with an email of the store was turned away, and the
\* store still holds the first
C12_Witness ==
    \E t \in Threads :
        /\ spc[t] = "returned"
        /\ sreq[t].op = "create_student"
        /\ sres[t] = StudentResult(FALSE, "Email already exists", PyNone)
        /\ \E r \in students :
             /\ r.email = sreq[t].student.email
             /\ r.name # sreq[t].student.name

(***************************************************************************)
(* C13.  Whenever create_grade has returned, the POST handler answers 201  *)
(* with success, the message, data.id and the notification outcome if the  *)
(* result says success, and 400 with the error message if it says failure; *)
(* no other status leaves the handler.                                     *)
(***************************************************************************)
C13_HandlerAnswers201Or400 ==
    (pc = "responded" /\ result # NoResult) =>
        IF result.success
        THEN /\ http.status = 201
             /\ http.json /\ http.success
             /\ http.text = result.message
             /\ http.id = result.grade_id
             /\ http.notification = result.egress_result
        ELSE /\ http.status = 400
             /\ http.json /\ ~http.success
             /\ http.text = result.message

(***************************************************************************)
(* C14.  The notification that create_grade sends after the insert carries *)
(* event "grade_created", a data object with student_id, student_name,     *)
(* course, grade, semester and credits of the created grade, and a         *)
(* message.                                                                *)
(***************************************************************************)
C14_NotificationPayload ==
    (pc = "returned" /\ Inserted) =>
        /\ DOMAIN sent = {"event", "data", "message"}
        /\ sent.event = "grade_created"
        /\ DOMAIN sent.data = {"student_id", "student_name", "course", "grade",
                               "semester", "credits"}
        /\ sent.data.student_id = grade.student_id
        /\ sent.data.student_name = student_name
        /\ sent.data.course = grade.course
        /\ sent.data.grade = grade.grade
        /\ sent.data.semester = grade.semester
        /\ sent.data.credits = grade.credits

(***************************************************************************)
(* C15.  validate_grade and validate_student return, for every input, the  *)
(* errors of all violated field rules in the order of the fields;          *)
(* is_valid is True exactly when there is none; and create_grade's message *)
(* on an invalid grade is these errors joined by "; ".                     *)
(***************************************************************************)
\* int(v) gives an integer
CoercibleToInt(v) == IntOf(v).exc = ""

\* the number a gpa value stands for, in halves, when it is a finite number
GpaHalves(v) ==
    CASE v.t = "int" -> 2 * v.n
      [] v.t = "float" -> v.n
      [] OTHER -> FloatOf(v).val.n

GpaIsFinite(v) ==
    \/ v.t \in {"int", "float"}
    \/ v.t = "str" /\ FloatOf(v).exc = ""

GpaIsNumber(v) == GpaIsFinite(v) \/ v.t \in {"inf", "nan"}

\* the rules of a grade, field by field
GradeRuleErrors(g) ==
       (IF ~Truthy(g.student_id) THEN <<ErrStudentId>> ELSE <<>>)
    \o (IF Len(Strip(g.course)) < 2 THEN <<ErrCourse>> ELSE <<>>)
    \o (IF g.grade = "" THEN <<ErrGradeRequired>>
        ELSE IF g.grade \notin GradeEnum THEN <<ErrInvalidGrade>> ELSE <<>>)
    \o (IF g.semester = "" THEN <<ErrSemester>> ELSE <<>>)
    \o (IF g.credits = PyNone THEN <<>>
        ELSE IF ~CoercibleToInt(g.credits) THEN <<ErrCreditsNumber>>
        ELSE IF IntOf(g.credits).val \notin 1..6 THEN <<ErrCreditsRange>>
        ELSE <<>>)

\* the rules of a student, field by field
StudentRuleErrors(st) ==
       (IF Len(Strip(st.name)) < 2 THEN <<ErrName>> ELSE <<>>)
    \o (IF ~Contains(st.email, "@") THEN <<ErrEmail>> ELSE <<>>)
    \o (IF st.age = PyNone THEN <<>>
        ELSE IF ~CoercibleToInt(st.age) THEN <<ErrAgeNumber>>
        ELSE IF IntOf(st.age).val \notin 16..100 THEN <<ErrAgeRange>>
        ELSE <<>>)
    \o (IF st.gpa = PyNone THEN <<>>
        ELSE IF ~GpaIsNumber(st.gpa) THEN <<ErrGpaNumber>>
        ELSE IF ~GpaIsFinite(st.gpa) \/ GpaHalves(st.gpa) \notin 0..8
             THEN <<ErrGpaRange>>
        ELSE <<>>)

C15_AllErrorsCollected ==
    validated.kind # "" =>
        /\ validated.exc = ""
        /\ validated.errors = IF validated.kind = "grade"
                              THEN GradeRuleErrors(validated.grade)
                              ELSE StudentRuleErrors(validated.student)
        /\ validated.is_valid <=> (validated.errors = <<>>)
        /\ (validated.kind = "grade" /\ ~validated.is_valid) =>
                validated.message = Join(validated.errors, "; ")

(***************************************************************************)
(* C16.  In one get_all_grades call with enrichment get_student_name is    *)
(* called at most once for a student id; when the call returns, it was     *)
(* called exactly once for each student id of the list, and grades with    *)
(* the same student_id carry the same student_name, whatever the order of  *)
(* the list and whatever the student service answered.                     *)
(***************************************************************************)
C16_OneLookupPerStudent ==
    /\ \A i, j \in DOMAIN name_calls : i # j => name_calls[i] # name_calls[j]
    /\ \A i \in DOMAIN name_calls :
            \E k \in DOMAIN listing : listing[k].student_id = name_calls[i]
    /\ \A k \in 1..(ei - 1) :
            /\ \E i \in DOMAIN name_calls : name_calls[i] = listing[k].student_id
            /\ listing[k].student_name = student_cache[listing[k].student_id]
    /\ epc = "returned" =>
        /\ ei = Len(listing) + 1
        /\ {name_calls[i] : i \in DOMAIN name_calls}
              = {listing[k].student_id : k \in DOMAIN listing}
        /\ \A k, l \in DOMAIN listing :
              listing[k].student_id = listing[l].student_id
                  => listing[k].student_name = listing[l].student_name
        /\ \A k \in DOMAIN listing :
              listing[k].student_name = student_cache[listing[k].student_id]

\* four grades of two students, those of one student not next to each other:
\* two lookups, two different names
C16_Witness ==
    /\ epc = "returned"
    /\ Len(listing) = 4
    /\ Len(name_calls) = 2
    /\ listing[1].student_id = listing[3].student_id
    /\ listing[1].student_id # listing[2].student_id
    /\ listing[1].student_name # listing[2].student_name

(***************************************************************************)
(* C17.  get_student_name never raises and always returns a string: the    *)
(* name of the student when the lookup resolves, and "Unknown" when the    *)
(* student is not found, the status is not 200, the body lacks success,    *)
(* data or a usable name, or the service cannot be reached.                *)
(***************************************************************************)
\* the student service answered 200 with a student that has a name
Resolves(reply) ==
    /\ reply.exc = ""
    /\ reply.status = 200
    /\ reply.body = "object"
    /\ reply.success /\ reply.hasdata
    /\ reply.hasname /\ ~reply.null_name

C17_NameOrUnknown ==
    lookup.called =>
        /\ lookup.exc = ""
        /\ ~lookup.name.none
        /\ lookup.name = IF Resolves(lookup.reply) THEN Text(lookup.reply.name)
                         ELSE Text("Unknown")

(***************************************************************************)
(* C18.  Whatever the input and whatever the student service, the store    *)
(* and the external endpoint do, create_grade returns a CreateGradeResult  *)
(* and the handler answers with the JSON it builds from it: no exception   *)
(* leaves create_grade or the handler.                                     *)
(***************************************************************************)
C18_EveryPathStructured ==
    /\ pc # "raised"
    /\ pc \in {"returned", "responded"} => result # NoResult
    /\ pc = "responded" =>
        /\ http.unhandled = ""
        /\ http.json
        /\ http.status \in {201, 400}

(***************************************************************************)
(* C19.  With create requests running in parallel threads on the shared    *)
(* connection, a call that returns success returns the id of the row it    *)
(* inserted itself, no two calls return the same id, and a call that       *)
(* reports failure has added no row.                                       *)
(***************************************************************************)
CreateReturned(t) == spc[t] = "returned" /\ sreq[t].op = "create_student"

C19_InsertsAsIfSerialized ==
    \A t \in Threads :
        CreateReturned(t) =>
            IF sres[t].success
            THEN /\ sres[t].id = PyInt(own[t])
                 /\ own[t] # 0
                 /\ sres[t].id.n \notin sissued
                 /\ \A u \in Threads \ {t} :
                        (CreateReturned(u) /\ sres[u].success) => sres[u].id # sres[t].id
            ELSE own[t] = 0

(***************************************************************************)
(* C20.  When two create_student requests with the same email, which is    *)
(* not in the store, run at the same time, one succeeds, the other gets    *)
(* "Email already exists", and the store holds one row with that email.    *)
(***************************************************************************)
C20_ConcurrentDuplicateIsConflict ==
    \A t, u \in Threads :
        (/\ t # u
         /\ CreateReturned(t) /\ CreateReturned(u)
         /\ sreq[t].student.email = sreq[u].student.email
         /\ validate_student(sreq[t].student).is_valid
         /\ validate_student(sreq[u].student).is_valid
         /\ find_by_email(students0[t], sreq[t].student.email) = {}
         /\ find_by_email(students0[u], sreq[u].student.email) = {})
        => /\ sres[t].success # sres[u].success
           /\ ~sres[t].success => sres[t].message = "Email already exists"
           /\ ~sres[u].success => sres[u].message = "Email already exists"
           /\ Cardinality(find_by_email(students, sreq[t].student.email)) = 1

(***************************************************************************)
(* C21.  find_all returns exactly the stored grades that match every       *)
(* supplied filter: student_id by equality (0 included), semester by       *)
(* equality, course as a substring; the list is ordered by semester        *)
(* descending, then course ascending, and holds each row once.  With no    *)
(* filter it returns all grades in that order.                             *)
(***************************************************************************)
\* sub occurs in text as it stands
IsSubstring(sub, text) ==
    \E k \in 0..(Len(text) - Len(sub)) : SubSeq(text, k + 1, k + Len(sub)) = sub

\* the stored rows that match every filter that was supplied
Matching ==
    {r \in query.table :
        /\ query.student_id.t # "none" => r.student_id = query.student_id.n
        /\ ~query.course.none => IsSubstring(query.course.text, r.course)
        /\ ~query.semester.none => r.semester = query.semester.text}

C21_FindAllFiltersAndOrders ==
    query.called =>
        /\ {find_result[i].id : i \in DOMAIN find_result} = {r.id : r \in Matching}
        /\ \A i \in DOMAIN find_result : \E r \in query.table : find_result[i] = from_row(r)
        /\ \A i, j \in DOMAIN find_result : i < j =>
                /\ find_result[i].id # find_result[j].id
                /\ ~RowBefore(find_result[j], find_result[i])

(***************************************************************************)
(* C22.  validate_grade returns is_valid=True exactly when student_id is   *)
(* truthy, the trimmed course has at least 2 characters, grade is a        *)
(* non-empty member of the enum, semester is non-empty, and credits is     *)
(* absent or coercible to an integer in 1..6; credits that cannot be       *)
(* coerced give "Credits must be a number" and not the range error.        *)
(***************************************************************************)
GradeIsValid(g) ==
    /\ Truthy(g.student_id)
    /\ Len(Strip(g.course)) >= 2
    /\ g.grade # "" /\ g.grade \in GradeEnum
    /\ g.semester # ""
    /\ \/ g.credits = PyNone
       \/ CoercibleToInt(g.credits) /\ IntOf(g.credits).val \in 1..6

C22_GradeValidIffRules ==
    validated.kind = "grade" =>
        /\ validated.exc = ""
        /\ validated.is_valid <=> GradeIsValid(validated.grade)
        /\ (validated.grade.credits # PyNone
                /\ ~CoercibleToInt(validated.grade.credits)) =>
                /\ CountOf(validated.errors, ErrCreditsNumber) = 1
                /\ CountOf(validated.errors, ErrCreditsRange) = 0

(***************************************************************************)
(* C23.  validate_student returns is_valid=True exactly when the trimmed   *)
(* name has at least 2 characters, email contains '@', age is absent or    *)
(* coercible to an integer in 16..100, and gpa is absent or coercible to a *)
(* number in 0..4; an age that cannot be coerced gives "Age must be a      *)
(* number" and never the range error, an out-of-range integer age gives    *)
(* the range error and never the type error.                               *)
(***************************************************************************)
StudentIsValid(st) ==
    /\ Len(Strip(st.name)) >= 2
    /\ Contains(st.email, "@")
    /\ \/ st.age = PyNone
       \/ CoercibleToInt(st.age) /\ IntOf(st.age).val \in 16..100
    /\ \/ st.gpa = PyNone
       \/ GpaIsFinite(st.gpa) /\ GpaHalves(st.gpa) \in 0..8

C23_StudentValidIffRules ==
    validated.kind = "student" =>
        /\ validated.exc = ""
        /\ validated.is_valid <=> StudentIsValid(validated.student)
        /\ (validated.student.age # PyNone
                /\ ~CoercibleToInt(validated.student.age)) =>
                /\ CountOf(validated.errors, ErrAgeNumber) = 1
                /\ CountOf(validated.errors, ErrAgeRange) = 0
        /\ (IsInt(validated.student.age)
                /\ validated.student.age.n \notin 16..100) =>
                /\ CountOf(validated.errors, ErrAgeRange) = 1
                /\ CountOf(validated.errors, ErrAgeNumber) = 0

(***************************************************************************)
(* C24.  Every input that passes validate_grade can be persisted: a        *)
(* create_grade call that reaches the store adds its row (credits absent   *)
(* or null are stored as the default 3), and every row of the grades table *)
(* has a grade of the enum, a course of trimmed length >= 2, a non-empty   *)
(* semester, a truthy student_id and integer credits in 1..6.              *)
(***************************************************************************)
RowIsWellFormed(r) ==
    /\ r.grade \in GradeEnum
    /\ Len(Strip(r.course)) >= 2
    /\ r.semester # ""
    /\ r.student_id # 0
    /\ r.credits \in 1..6

\* create_grade has called repository.create in this request
ReachedTheStore == CountOf(calls, "create") = 1

C24_ValidInputIsPersisted ==
    /\ \A r \in grades : RowIsWellFormed(r)
    /\ ReachedTheStore =>
        /\ grade_id # PyNone
        /\ \E r \in grades :
            /\ r.id = grade_id.n
            /\ r.id \notin Ids(grades0)
            /\ r.credits = IF grade.credits = PyNone THEN 3 ELSE grade.credits.n

(***************************************************************************)
(* C25.  When two delete_grade requests for the same existing id           *)
(* interleave, exactly one returns (True, "Grade deleted successfully")    *)
(* and the other (False, "Grade not found"); no call returns "Failed to    *)
(* delete grade", and the row is removed exactly once.                     *)
(***************************************************************************)
\* both threads have answered a request for one id that was stored when
\* one of the requests came in
TwoDeletesOfOneGrade(t, u) ==
    /\ t # u
    /\ dpc[t] = "returned" /\ dpc[u] = "returned"
    /\ dreq[t] = dreq[u]
    /\ dreq[t] \in Ids(dgrades0[t]) \cup Ids(dgrades0[u])

C25_ConcurrentDeletesOneWinner ==
    /\ \A t \in Threads : dres[t].message # "Failed to delete grade"
    /\ \A t, u \in Threads : TwoDeletesOfOneGrade(t, u) =>
            /\ {dres[t], dres[u]} =
                    {[success |-> TRUE, message |-> "Grade deleted successfully"],
                     [success |-> FALSE, message |-> "Grade not found"]}
            /\ CountOf(removed, dreq[t]) = 1
            /\ dreq[t] \notin Ids(grades)

(***************************************************************************)
(* C26.  After any sequence of send_grade_notification and test_connection *)
(* calls, total_attempts = total_successes + total_failures, and no single *)
(* call increments both total_successes and total_failures.                *)
(***************************************************************************)
C26_CountersAddUp ==
    /\ wstatus.total_attempts = wstatus.total_successes + wstatus.total_failures
    /\ wcall.op # "" =>
        ~(/\ wstatus.total_successes > wcall.before.total_successes
          /\ wstatus.total_failures > wcall.before.total_failures)

(***************************************************************************)
(* C27.  On a disabled WebhookService send_grade_notification returns      *)
(* success=False, error "Webhooks disabled", blocked=False, makes no       *)
(* outbound call and leaves every field of the WebhookStatus unchanged.    *)
(***************************************************************************)
C27_DisabledSendsNothing ==
    (wcall.op = "send_grade_notification" /\ ~webhook.enabled) =>
        /\ wcall.exc = ""
        /\ wcall.result.success = FALSE
        /\ wcall.result.error = Text("Webhooks disabled")
        /\ wcall.result.blocked = FALSE
        /\ wcall.posted = 0
        /\ wcall.payload = NoPayload
        /\ wstatus = wcall.before

\* a disabled service whose counters test_connection has moved, after a
\* send_grade_notification call
C27_Witness ==
    /\ webhook.constructed /\ ~webhook.enabled
    /\ wcall.op = "send_grade_notification"
    /\ wstatus.total_successes > 0
    /\ wstatus.total_failures > 0
    /\ wposts = 2

(***************************************************************************)
(* C28.  In the webhook receiver the history holds at most 50 entries      *)
(* after any sequence of grade-notification and clear requests; a          *)
(* notification that arrives with the history full drops the oldest entry, *)
(* any other notification drops none, the entries kept are the newest in   *)
(* arrival order, and clear empties the history.                           *)
(***************************************************************************)
C28_HistoryKeepsNewestFifty ==
    /\ Len(received_webhooks) <= HistoryLimit
    /\ \A i \in DOMAIN received_webhooks :
            received_webhooks[i].timestamp = rnow - Len(received_webhooks) + i
    /\ rlast.op = "grade-notification" =>
        /\ received_webhooks # <<>>
        /\ received_webhooks[Len(received_webhooks)].timestamp = rnow
        /\ SubSeq(received_webhooks, 1, Len(received_webhooks) - 1) =
                IF Len(rlast.before) = HistoryLimit THEN Tail(rlast.before)
                ELSE rlast.before
    /\ rlast.op = "clear" => received_webhooks = <<>>

\* a notification has arrived with the history full, for the second time
C28_Witness ==
    /\ rlast.op = "grade-notification"
    /\ Len(rlast.before) = HistoryLimit
    /\ Len(received_webhooks) = HistoryLimit
    /\ received_webhooks[1].timestamp = 3

(***************************************************************************)
(* C29.  The webhook_id returned for a notification is unique among the    *)
(* entries retained in the history and strictly greater than the id of     *)
(* every earlier retained entry, for any number of notifications, more     *)
(* than 50 without a clear included.                                       *)
(***************************************************************************)
C29_WebhookIdsIncrease ==
    /\ \A i, j \in DOMAIN received_webhooks :
            i < j => received_webhooks[i].id < received_webhooks[j].id
    /\ rlast.op = "grade-notification" =>
            rlast.response.webhook_id =
                received_webhooks[Len(received_webhooks)].id

=============================================================================
